---- MODULE Spec2Model ----
(***************************************************************************)
(* Crawl orchestration of the data-ingestion service: the crawl job        *)
(* lifecycle (CrawlHandler in handlers/crawl_handler.py), the two          *)
(* background pollers (app.py background_poll_and_download and             *)
(* CrawlHandler._background_poll_and_download), the job metadata store     *)
(* (BigQuery crawl_metadata table with the in-memory fallback store), the  *)
(* Pub/Sub bus (EventPublisher) and the HTTP routes of app.py.             *)
(*                                                                         *)
(* Two readings of app.py are fixed here.  Its routes and its poller call   *)
(* the coroutines CrawlHandler.trigger_crawl and download_data without     *)
(* awaiting them: they are modelled with the coroutine run to completion   *)
(* and its result returned.  crawl_handler.brightdata_client               *)
(* .poll_crawl_status is modelled as the only poll_crawl_status of the     *)
(* repository (brightdata/client.py, brightdata/handlers/crawl_handler.py);*)
(* the client CrawlHandler constructs (api_clients/brightdata_client.py)   *)
(* defines none.  CrawlHandler's own poller and _async_download_data use   *)
(* check_status of api_clients and need neither reading.                   *)
(***************************************************************************)
EXTENDS Integers, Sequences, FiniteSets, TLC

\* ---------------------------------------------------------------- bounds
\* Largest BACKGROUND_MAX_POLLS explored (the budget is drawn from 1..MaxPolls).
MaxPolls == 7
\* Number of _async_download_data runs explored per job (by the download route
\* and the two pollers together).
MaxRuns == 2
\* Largest number of records of a provider payload.
MaxRecs == 1
\* Calendar days that pass during a run (datetime.utcnow() of the storage path).
MaxDay == 1
\* Times the warehouse goes down or comes back during a run.
MaxFlips == 1
\* BACKGROUND_MAX_WORKERS, the size of each worker pool.
MaxWorkers == 2
\* Trigger calls accepted while the executors are observed.
MaxCrawls == 3
\* Largest month, day of month and hour of the timestamps given to
\* get_storage_path.
MaxMonth == 11
MaxDate == 10
MaxHour == 22
\* Pieces (objects, lines, elements) a response text is made of.
MaxPieces == 3

\* Entries of a platform configuration file.
MaxEntries == 2
\* Calls of PlatformRegistry.register.
MaxRegisters == 2

\* Records of the data whose media files are counted.
MaxItems == 2

\* Lines of the body the provider answers a download with.
MaxLines == 2

\* ------------------------------------------------------------- constants
\* The crawl ids explored.
Jobs == {"c1"}
\* Who runs CrawlHandler._async_download_data: the download route, the app.py
\* poller, the CrawlHandler poller.
Actors == {"manual", "app", "handler"}
Statuses == {"triggered", "downloading", "downloaded", "uploaded", "completed", "failed"}
Terminal == {"completed", "failed"}
\* The stage argument of publish_crawl_failed, as app.py passes it.
Stages == {"metadata_lookup", "brightdata_error", "download_failure",
           "polling_exception", "polling_timeout", "background_exception"}
Topics == {"crawl-triggered", "data-ingestion-completed"} \cup Stages

VARIABLES
    enabled,        \* BACKGROUND_POLLING_ENABLED (app.py and CrawlHandler read the same variable)
    max_polls,      \* BACKGROUND_MAX_POLLS
    today,          \* calendar day of datetime.utcnow()
    bqUp,           \* the warehouse answers (insert_rows_json and query succeed)
    pubUp,          \* Pub/Sub delivers (EventPublisher.publish returns True)
    nFlips,         \* warehouse outages / recoveries so far
    req,            \* per job: the trigger request not yet handled (platform, url)
    trig,           \* per job: outcome of the trigger call
    provCalls,      \* per job: calls of the provider client's trigger_crawl
    prov,           \* per job: provider-side state of the snapshot
    payload,        \* per job: number of records of the ready snapshot
    bq,             \* per job: rows of the crawl_metadata table
    local,          \* per job: local_metadata_store entry
    latest,         \* per job: status of the most recent status record written
    nEv,            \* per job: number of status records written, per status
    bus,            \* per job: notifications delivered, per topic / failure stage
    gcs,            \* per job: object-storage paths written
    summary,        \* per job: rows inserted in raw_data_crawl_snapshots
    active_background_tasks,
    appPc, appPolls,    \* app.py background_poll_and_download
    hPc, hPolls,        \* CrawlHandler._background_poll_and_download
    run,            \* per job and actor: the _async_download_data run
    nRuns,          \* per job: _async_download_data runs started
    resp,           \* per job: last GetStatus response
    ghost,          \* per job: history flags the claims refer to
    executors,      \* the two ThreadPoolExecutors: work queue and busy workers
    call,           \* a get_storage_path call: handler, arguments, results
    snapshot,       \* a download_snapshot call: response text, parse result, outcome
    registry,       \* PlatformRegistry: _configs, _handlers, _initialized, the last call
    prep,           \* a prepare_request_params call: handler, caller parameters, result, provider payload
    media,          \* an extract_media_info call and a media count: handler, records, results
    adapter,        \* a provider client: the job at the provider, the download_data call and its result
    scan            \* the second attempt of the response parser, one iteration of its while loop at a time

vars == <<enabled, max_polls, today, bqUp, pubUp, nFlips, req, trig, provCalls, prov, payload, bq, local, latest, nEv, bus,
          gcs, summary, active_background_tasks, appPc, appPolls, hPc, hPolls, run,
          nRuns, resp, ghost, executors, call, snapshot,
          registry,
          prep,
          media,
          adapter,
          scan>>

\* ------------------------------------------------------------ platforms
\* The platforms a request may name: facebook and tiktok have a handler,
\* youtube has a configuration only.
Platforms == {"facebook", "tiktok", "youtube"}
Handlers == {"facebook", "tiktok"}

\* PlatformRegistry.is_registered(platform): the platform has a configuration.
IsRegistered(platform) == platform \in Platforms

\* Not the code: a lookup that answers for every configured platform. C30 must
\* tell it apart.
GetHandlerOfConfig(platform) == IF platform \in Platforms THEN platform ELSE "None"

\* get_platform_handler(platform): the handler, or None.
GetPlatformHandler(platform) == IF platform \in Handlers THEN platform ELSE "None"

\* The url parameter of a request: absent, not a string, or a string given by
\* its parts (scheme, optional "www.", host, path; or "@", user name).
NoUrl == [kind |-> "missing", parts |-> <<>>]
NonStringUrl == [kind |-> "nonstring", parts |-> <<>>]
Url(parts) == [kind |-> "str", parts |-> parts]
Urls ==
    { NoUrl, NonStringUrl, Url(<<>>),
      Url(<<"https://", "www.", "facebook.com", "/page">>),
      Url(<<"http://", "fb.com", "/page">>),
      Url(<<"facebook.com", "/page">>),
      Url(<<"https://", "www.", "tiktok.com", "/@user">>),
      Url(<<"@", "user">>) }

Requests == [platform : Platforms, url : Urls]
\* No request pending: the trigger call has been handled.
NoRequest == [platform |-> "none", url |-> NoUrl]

FacebookHosts == {"facebook.com", "fb.com"}
OtherHosts == {"instagram.com", "facebook.com", "youtube.com"}
HasPart(u, hosts) == \E i \in DOMAIN u.parts : u.parts[i] \in hosts

\* Not the code: a validation that accepts any non-empty string url, the
\* domain check forgotten. C11 must tell it apart.
FacebookValidateAnyUrl(u) ==
    IF u.kind # "str" \/ u.parts = <<>> THEN "invalid" ELSE "valid"

\* FacebookHandler.validate_params: a non-empty string url that
\* FACEBOOK_URL_PATTERN (https?://(www\.)?(facebook\.com|fb\.com)) matches at
\* its start.
FacebookValidateParams(u) ==
    IF u.kind # "str" \/ u.parts = <<>> THEN "invalid"
    ELSE IF /\ Len(u.parts) >= 2
            /\ u.parts[1] \in {"http://", "https://"}
            /\ \/ u.parts[2] \in FacebookHosts
               \/ Len(u.parts) >= 3 /\ u.parts[2] = "www." /\ u.parts[3] \in FacebookHosts
    THEN "valid" ELSE "invalid"

\* TikTokHandler.validate_params: the required url present and truthy; a url
\* containing 'tiktok.com', or an @username naming no other platform. The
\* substring tests raise TypeError on a url that is not a string.
TikTokValidateParams(u) ==
    IF u.kind = "missing" \/ (u.kind = "str" /\ u.parts = <<>>) THEN "invalid"
    ELSE IF u.kind = "nonstring" THEN "raise"
    ELSE IF HasPart(u, {"tiktok.com"}) THEN "valid"
    ELSE IF u.parts[1] = "@" /\ ~HasPart(u, OtherHosts) THEN "valid"
    ELSE "invalid"

\* platform_handler.validate_params(crawl_params)
ValidateParams(handler, u) ==
    IF handler = "facebook" THEN FacebookValidateParams(u) ELSE TikTokValidateParams(u)

\* What trigger_crawl does with a request before any provider call:
\* "unsupported" and "invalid" return the error, "raise" enters the except
\* clause, "call" goes on to the provider.
Admission(r) ==
    IF GetPlatformHandler(r.platform) = "None" THEN "unsupported"
    ELSE IF ValidateParams(GetPlatformHandler(r.platform), r.url) = "valid" THEN "call"
    ELSE ValidateParams(GetPlatformHandler(r.platform), r.url)

\* ------------------------------------------------------- metadata store
\* A stored snapshot id is the provider's ("real") or the "status_update_<ts>"
\* placeholder of _update_crawl_status ("bogus").
NoLocal == [present |-> FALSE, hasSnap |-> FALSE, status |-> "none", err |-> FALSE]

Row(snap, status, err) == [snap |-> snap, status |-> status, err |-> err]

\* Not the code: a trigger whose warehouse insert is reported done and writes
\* no row. C24 must tell it apart.
StoreBqNothing(rows, ok) == rows

\* _store_crawl_metadata: a 'triggered' row in BigQuery, or (insert failed) the
\* whole record in the local store.
StoreBq(rows, ok) == IF ok THEN rows \cup {Row("real", "triggered", FALSE)} ELSE rows

\* Not the code: a failed insert that leaves the local store as it was. C21
\* must tell it apart.
StoreLocalNothing(l, ok) == l

StoreLocal(l, ok) ==
    IF ok THEN l
    ELSE [present |-> TRUE, hasSnap |-> TRUE, status |-> "triggered", err |-> FALSE]

\* _update_crawl_status: the snapshot id of the new row is the local store's, or
\* the status_update_<timestamp> placeholder.
UpdateSnap(l) == IF l.present /\ l.hasSnap THEN "real" ELSE "bogus"

\* Not the code: a status change that replaces the job's rows (an UPDATE in
\* place) instead of inserting one. C14 must tell it apart.
UpdateBqInPlace(rows, l, status, err, ok) ==
    IF ok THEN {Row(UpdateSnap(l), status, err)} ELSE rows

UpdateBq(rows, l, status, err, ok) ==
    IF ok THEN rows \cup {Row(UpdateSnap(l), status, err)} ELSE rows

\* ... and the local store entry is created if absent and overwritten in place;
\* an earlier error_message stays when the new status carries none.
UpdateLocal(l, status, err) ==
    [present |-> TRUE, hasSnap |-> l.present /\ l.hasSnap, status |-> status,
     err |-> err \/ (l.present /\ l.err)]

\* _get_crawl_metadata: any one row of the job (LIMIT 1, no ORDER BY) when the
\* query succeeds and finds rows, otherwise the local store entry, otherwise None.
NoMeta == [found |-> FALSE, hasSnap |-> FALSE, snap |-> "none", status |-> "none"]

MetaOfRow(r) == [found |-> TRUE, hasSnap |-> TRUE, snap |-> r.snap, status |-> r.status]

MetaOfLocal(l) ==
    IF l.present
    THEN [found |-> TRUE, hasSnap |-> l.hasSnap,
          snap |-> IF l.hasSnap THEN "real" ELSE "none", status |-> l.status]
    ELSE NoMeta

GetCrawlMetadata(rows, l, up) ==
    IF up /\ rows # {} THEN {MetaOfRow(r) : r \in rows} ELSE {MetaOfLocal(l)}

\* ------------------------------------------------------------- the bus
\* EventPublisher.publish: delivered, or (any exception) logged and False.
Publish(b, topic, ok) == IF ok THEN [b EXCEPT ![topic] = @ + 1] ELSE b

\* publish_crawl_failed(crawl_id, message, stage): topic crawl-failed, status
\* failed, with the stage.
PublishCrawlFailed(b, stage, ok) == Publish(b, stage, ok)

\* self.event_publisher.publish_data_ingestion_failed: EventPublisher defines no
\* such method; the AttributeError is swallowed by the caller's except clause.
PublishDataIngestionFailed(b) == b

\* ------------------------------------------------------------ provider
\* api_clients BrightDataClient.check_status / ApifyAPIClient.check_status:
\* raises on a transport error or a non-200 answer (the provider's answer to a
\* snapshot id it never issued), else is_ready from the provider's status.
CheckStatus(snap, p, httpOk) ==
    IF snap # "real" \/ ~httpOk THEN "raise"
    ELSE IF p = "ready" THEN "ready" ELSE "not_ready"

\* brightdata CrawlHandler.poll_crawl_status: polls until ready (True, None);
\* failed, non-200, timeout after max_attempts or any exception is (False, error).
PollCrawlStatus(snap, p, httpOk) ==
    IF snap = "real" /\ httpOk /\ p = "ready"
    THEN [is_ready |-> TRUE, error |-> FALSE]
    ELSE [is_ready |-> FALSE, error |-> TRUE]

\* -------------------------------------------------------- storage paths
\* PlatformConfig.name of the built-in configurations, and str.lower on them.
ConfigName == [facebook |-> "Facebook", tiktok |-> "TikTok", youtube |-> "YouTube"]
Lower == [s \in {"Facebook", "TikTok", "YouTube"} |->
             CASE s = "Facebook" -> "facebook" [] s = "TikTok" -> "tiktok" [] OTHER -> "youtube"]

\* An argument that is a str, and one that is not (an int); text is what an
\* f-string puts for it.
Str(text) == [isStr |-> TRUE, text |-> text]
NotStr(text) == [isStr |-> FALSE, text |-> text]

\* Not the code: a number formatted without padding. C17 must tell it apart.
Unpadded(n) == ToString(n)

\* Format specification 02d.
Pad2(n) == IF n < 10 THEN "0" \o ToString(n) ELSE ToString(n)

\* BasePlatformHandler.get_storage_path of the two handlers: FacebookHandler
\* raises ValueError for a snapshot id that is not a str, TikTokHandler
\* formats whatever it is given.
GetStoragePath(handler, a) ==
    IF handler = "facebook" /\ ~a.snapshot_id.isStr
    THEN "ValueError"
    ELSE "raw_snapshots/platform=" \o Lower[ConfigName[handler]]
         \o "/competitor=" \o a.competitor \o "/brand=" \o a.brand
         \o "/category=" \o a.category
         \o "/year=" \o ToString(a.timestamp.year)
         \o "/month=" \o Pad2(a.timestamp.month)
         \o "/day=" \o Pad2(a.timestamp.day)
         \o "/snapshot_" \o a.snapshot_id.text \o ".json"

SnapshotIds == {Str("s_abc"), Str("s_xyz"), NotStr("7")}
Competitors == {"nutifood", "vinamilk"}
Timestamps ==
    [year : {2024}, month : {1, MaxMonth}, day : {MaxDate - 1, MaxDate}, hour : {0, MaxHour}]
Arguments ==
    [snapshot_id : SnapshotIds, competitor : Competitors, brand : {"growplus"},
     category : {"sua-bot"}, timestamp : Timestamps]
NoCall == [handler |-> "none", out |-> "none", again |-> "none"]
Calls == [handler : Handlers, args : Arguments, out : {"none"}, again : {"none"}]

\* ------------------------------------------------------ response parser
\* The response text is a sequence of characters; positions count from 0 as
\* in the code.  json is modelled on the characters that occur: objects with
\* string keys, arrays, strings of letters, numbers of digits, whitespace.
Whitespace == {" ", "\n"}
Ch(s, i) == IF 0 <= i /\ i < Len(s) THEN s[i + 1] ELSE "eof"
Slice(s, i, e) == SubSeq(s, i + 1, e)

RECURSIVE SkipWhitespace(_, _)
SkipWhitespace(s, i) == IF Ch(s, i) \in Whitespace THEN SkipWhitespace(s, i + 1) ELSE i

\* str.find(c, from): the first position at or after from, or -1.
RECURSIVE Find(_, _, _)
Find(s, c, from) ==
    IF from >= Len(s) THEN -1 ELSE IF Ch(s, from) = c THEN from ELSE Find(s, c, from + 1)

\* json.scanner: the position after the value that starts at i, or -1 (the
\* JSONDecodeError).  A string may hold no control character.
RECURSIVE StringEnd(_, _)
StringEnd(s, k) ==
    IF Ch(s, k) = "\"" THEN k + 1
    ELSE IF Ch(s, k) \in {"eof", "\n"} THEN -1
    ELSE StringEnd(s, k + 1)

RECURSIVE NumberEnd(_, _)
NumberEnd(s, k) == IF Ch(s, k) = "1" THEN NumberEnd(s, k + 1) ELSE k

RECURSIVE ScanValue(_, _)
RECURSIVE ObjectPairs(_, _)
RECURSIVE ArrayElems(_, _)

\* JSONObject after the quote that opens a key.
ObjectPairs(s, k) ==
    LET colon == IF StringEnd(s, k) = -1 THEN -1 ELSE SkipWhitespace(s, StringEnd(s, k))
        val == IF colon = -1 \/ Ch(s, colon) # ":"
               THEN -1 ELSE ScanValue(s, SkipWhitespace(s, colon + 1))
        nxt == IF val = -1 THEN -1 ELSE SkipWhitespace(s, val)
        key == SkipWhitespace(s, nxt + 1)
    IN  IF nxt = -1 THEN -1
        ELSE IF Ch(s, nxt) = "}" THEN nxt + 1
        ELSE IF Ch(s, nxt) = "," /\ Ch(s, key) = "\"" THEN ObjectPairs(s, key + 1)
        ELSE -1

\* JSONArray at the first element.
ArrayElems(s, j) ==
    LET val == ScanValue(s, j)
        nxt == IF val = -1 THEN -1 ELSE SkipWhitespace(s, val)
    IN  IF nxt = -1 THEN -1
        ELSE IF Ch(s, nxt) = "]" THEN nxt + 1
        ELSE IF Ch(s, nxt) = "," THEN ArrayElems(s, SkipWhitespace(s, nxt + 1))
        ELSE -1

ScanValue(s, i) ==
    LET c == Ch(s, i)
        j == SkipWhitespace(s, i + 1)
    IN  IF c = "\"" THEN StringEnd(s, i + 1)
        ELSE IF c = "1" THEN NumberEnd(s, i)
        ELSE IF c = "{"
             THEN IF Ch(s, j) = "}" THEN j + 1
                  ELSE IF Ch(s, j) = "\"" THEN ObjectPairs(s, j + 1) ELSE -1
        ELSE IF c = "["
             THEN IF Ch(s, j) = "]" THEN j + 1 ELSE ArrayElems(s, j)
        ELSE -1

\* The Python object decoded from s[i:e]: its type and its content, written
\* without whitespace.
Kind(c) == CASE c = "{" -> "dict" [] c = "[" -> "list" [] c = "\"" -> "str" [] OTHER -> "int"
Object(s, i, e) ==
    [kind |-> Kind(Ch(s, i)), text |-> SelectSeq(Slice(s, i, e), LAMBDA c : c \notin Whitespace)]
IsDict(obj) == obj.kind = "dict"

\* The elements of the list decoded at i, where ScanValue succeeds.
RECURSIVE ElementsFrom(_, _)
ElementsFrom(s, j) ==
    LET val == ScanValue(s, j)
        nxt == SkipWhitespace(s, val)
    IN  IF Ch(s, nxt) = "]" THEN <<Object(s, j, val)>>
        ELSE <<Object(s, j, val)>> \o ElementsFrom(s, SkipWhitespace(s, nxt + 1))
Elements(s, i) ==
    IF Ch(s, SkipWhitespace(s, i + 1)) = "]" THEN <<>>
    ELSE ElementsFrom(s, SkipWhitespace(s, i + 1))

\* decoder.raw_decode(s, idx): no whitespace is skipped; end is a position of s.
RawDecode(s, idx) == [ok |-> ScanValue(s, idx) # -1, at |-> idx, end |-> ScanValue(s, idx)]

\* json.loads(s): whitespace around the one value, anything else is an error.
Loads(s) ==
    LET i == SkipWhitespace(s, 0)
        e == ScanValue(s, i)
    IN  [ok |-> e # -1 /\ SkipWhitespace(s, e) = Len(s), at |-> i, end |-> e]

\* Not the code: a first attempt that keeps only the dictionaries of the
\* list. C27 must tell it apart.
AsListOfDicts(s, d) ==
    IF Ch(s, d.at) = "[" THEN SelectSeq(Elements(s, d.at), IsDict)
    ELSE <<Object(s, d.at, d.end)>>

\* return data if isinstance(data, list) else [data]
AsList(s, d) == IF Ch(s, d.at) = "[" THEN Elements(s, d.at) ELSE <<Object(s, d.at, d.end)>>

\* Second attempt: the while loop over idx; after a decoded object the code
\* does idx += end_idx.
RECURSIVE Concatenated(_, _, _)
Concatenated(s, idx, parsed_objects) ==
    LET i == SkipWhitespace(s, idx)
        d == RawDecode(s, i)
        next_brace == Find(s, "{", i + 1)
    IN  IF i >= Len(s) THEN parsed_objects
        ELSE IF d.ok
        THEN Concatenated(s, i + d.end, Append(parsed_objects, Object(s, i, d.end)))
        ELSE IF next_brace = -1 THEN parsed_objects
        ELSE Concatenated(s, next_brace, parsed_objects)

\* response_text.split('\n') and line.strip()
RECURSIVE Split(_, _)
Split(s, from) ==
    IF Find(s, "\n", from) = -1 THEN <<Slice(s, from, Len(s))>>
    ELSE <<Slice(s, from, Find(s, "\n", from))>> \o Split(s, Find(s, "\n", from) + 1)
RECURSIVE RStrip(_)
RStrip(s) == IF s # <<>> /\ s[Len(s)] \in Whitespace THEN RStrip(SubSeq(s, 1, Len(s) - 1)) ELSE s
Strip(s) == RStrip(Slice(s, SkipWhitespace(s, 0), Len(s)))

\* Third attempt: the lines that start with { or [ and load.
RECURSIVE JsonLines(_)
JsonLines(lines) ==
    IF lines = <<>> THEN <<>>
    ELSE LET line == Strip(Head(lines))
         IN  (IF Ch(line, 0) \in {"{", "["} /\ Loads(line).ok
              THEN <<Object(line, 0, Loads(line).end)>> ELSE <<>>)
             \o JsonLines(Tail(lines))

\* Final attempt: from the first [ (or, with none, the first {) to the end.
StartMarker(s) == IF Find(s, "[", 0) # -1 THEN Find(s, "[", 0) ELSE Find(s, "{", 0)

None == [none |-> TRUE, data |-> <<>>]
Data(objs) == [none |-> FALSE, data |-> objs]

\* Not the code: a parser that, every attempt having failed, returns the text
\* itself as a record. C29 must tell it apart.
ParsePromotingNoise(s) ==
    LET valid_objects == SelectSeq(Concatenated(s, 0, <<>>), IsDict)
        valid_lines == SelectSeq(JsonLines(Split(s, 0)), IsDict)
        json_part == Slice(s, StartMarker(s), Len(s))
    IN  IF Loads(s).ok THEN Data(AsList(s, Loads(s)))
        ELSE IF valid_objects # <<>> THEN Data(valid_objects)
        ELSE IF valid_lines # <<>> THEN Data(valid_lines)
        ELSE IF StartMarker(s) # -1 /\ Loads(json_part).ok
             THEN Data(AsList(json_part, Loads(json_part)))
        ELSE Data(<<[kind |-> "str", text |-> s]>>)

\* DownloadHandler._parse_brightdata_response(response_text, snapshot_id)
ParseBrightdataResponse(s) ==
    LET valid_objects == SelectSeq(Concatenated(s, 0, <<>>), IsDict)
        valid_lines == SelectSeq(JsonLines(Split(s, 0)), IsDict)
        json_part == Slice(s, StartMarker(s), Len(s))
    IN  IF Loads(s).ok THEN Data(AsList(s, Loads(s)))
        ELSE IF valid_objects # <<>> THEN Data(valid_objects)
        ELSE IF valid_lines # <<>> THEN Data(valid_lines)
        ELSE IF StartMarker(s) # -1 /\ Loads(json_part).ok
             THEN Data(AsList(json_part, Loads(json_part)))
        ELSE None

\* Response texts: pieces joined with nothing between them (concatenated
\* objects), one per line (JSON lines), or as the elements of an array.
ObjA == <<"{", "\"", "a", "\"", ":", "1", "}">>
ObjEmpty == <<"{", "}">>
ArrNum == <<"[", "1", "]">>
ArrMixed == <<"[", "{", "}", ",", "1", "]">>
Num == <<"1">>
Junk == <<"a">>
Truncated == <<"{", "\"", "a", "\"", ":">>
Pieces == {ObjA, ObjEmpty, ArrNum, ArrMixed, Num, Junk, Truncated}
Forms == {"concatenated", "lines", "array"}

RECURSIVE Join(_, _)
Join(pieces, sep) ==
    IF Len(pieces) = 1 THEN pieces[1] ELSE pieces[1] \o sep \o Join(Tail(pieces), sep)

ResponseText(pieces, form) ==
    CASE form = "concatenated" -> Join(pieces, <<>>)
      [] form = "lines" -> Join(pieces, <<"\n">>)
      [] form = "array" -> <<"[">> \o Join(pieces, <<",">>) \o <<"]">>

Responses == (UNION {[1..n -> Pieces] : n \in 1..MaxPieces}) \X Forms

\* The second attempt as it runs: idx, parsed_objects, the position of the
\* latest raw_decode call (-1 before the first), the end of the value decoded
\* last before that call and of the value decoded last (0 with none), the
\* iterations begun.
NoScan ==
    [pc |-> "none", response_text |-> <<>>, idx |-> 0, parsed_objects |-> <<>>,
     at |-> -1, before |-> 0, end |-> 0, n |-> 0]
Scan(s) == [NoScan EXCEPT !.pc = "loop", !.response_text = s]

\* Not the code: the search for the next '{' starting at idx, not at idx + 1.
\* C40 must tell it apart.
NextBraceFromIdx(s, idx) == Find(s, "{", idx)

\* next_brace = response_text.find('{', idx + 1)
NextBrace(s, idx) == Find(s, "{", idx + 1)

\* One iteration of 'while idx < response_length' on the state c: whitespace
\* is skipped; at the end of the text, break; raw_decode at idx: the object is
\* appended and idx += end_idx, or idx = next_brace, or break with no '{'.
ScanIteration(c) ==
    LET s == c.response_text
        i == SkipWhitespace(s, c.idx)
        d == RawDecode(s, i)
        next_brace == NextBrace(s, i)
        tried == [c EXCEPT !.n = @ + 1, !.at = i, !.before = c.end]
    IN  IF i >= Len(s) THEN [c EXCEPT !.n = @ + 1, !.idx = i, !.pc = "done"]
        ELSE IF d.ok
        THEN [tried EXCEPT !.idx = i + d.end, !.end = d.end,
                           !.parsed_objects = Append(@, Object(s, i, d.end))]
        ELSE IF next_brace = -1 THEN [tried EXCEPT !.idx = i, !.pc = "done"]
        ELSE [tried EXCEPT !.idx = next_brace]

NoSnapshot ==
    [pieces |-> <<>>, form |-> "none", response_text |-> <<>>, parsed |-> FALSE,
     data |-> None, result |-> "none", debug |-> "none"]
Snapshot(pieces, form) ==
    [NoSnapshot EXCEPT !.pieces = pieces, !.form = form,
                       !.response_text = ResponseText(pieces, form)]

\* ------------------------------------------------------------- registry
\* PlatformRegistry: the class attributes _configs and _handlers are dicts,
\* modelled as sets of <<key, value>> pairs.  A profile is named by where it
\* comes from, a handler by its class name.
Names == {"facebook", "Facebook", "tiktok", "youtube"}
Profiles == {"builtin", "yaml", "custom"}
Classes == {"FacebookHandler", "TikTokHandler", "CustomHandler"}

\* str.lower and str.capitalize on the names.
LowerName(name) == IF name = "Facebook" THEN "facebook" ELSE name
Capitalize(name) ==
    CASE name \in {"facebook", "Facebook"} -> "Facebook"
      [] name = "tiktok" -> "Tiktok"
      [] OTHER -> "Youtube"

\* d[k] = v, k in d, d[k] (None when absent).
SetItem(d, k, v) == {e \in d : e[1] # k} \cup {<<k, v>>}
HasKey(d, k) == \E e \in d : e[1] = k
GetItem(d, k) == IF HasKey(d, k) THEN (CHOOSE e \in d : e[1] = k)[2] ELSE "None"

NoRegistry == [configs |-> {}, handlers |-> {}, initialized |-> FALSE,
               op |-> "none", out |-> "none", n |-> 0]

\* Not the code: a registration under the name as given. C31 must tell it apart.
RegisterAsGiven(reg, platform, handler_class, config) ==
    [reg EXCEPT !.handlers = SetItem(@, platform, handler_class),
                !.configs = SetItem(@, platform, config)]

\* PlatformRegistry.register(platform, handler_class, config)
RegistryRegister(reg, platform, handler_class, config) ==
    [reg EXCEPT !.handlers = SetItem(@, LowerName(platform), handler_class),
                !.configs = SetItem(@, LowerName(platform), config)]

\* PlatformRegistry.get_handler(platform): the handler instance, or None.
RegistryGetHandler(reg, platform) ==
    IF HasKey(reg.handlers, LowerName(platform))
    THEN GetItem(reg.handlers, LowerName(platform))
    ELSE "None"

\* PlatformRegistry.get_config(platform)
RegistryGetConfig(reg, platform) == GetItem(reg.configs, LowerName(platform))

\* PlatformRegistry.is_registered(platform)
RegistryIsRegistered(reg, platform) == HasKey(reg.configs, LowerName(platform))

\* The classes of the module platforms.<platform>.handler of src/platforms
\* (the import is by the name as written in the file); ImportError otherwise.
ModuleClasses(platform) ==
    CASE platform = "facebook" -> {"FacebookHandler"}
      [] platform = "tiktok" -> {"TikTokHandler"}
      [] OTHER -> {"ImportError"}

\* The class load_from_config looks up in the module: <Platform>Handler, then
\* Handler; None when the module has neither.
HandlerClass(platform) ==
    IF ModuleClasses(platform) = {"ImportError"} THEN "ImportError"
    ELSE IF Capitalize(platform) \o "Handler" \in ModuleClasses(platform)
    THEN Capitalize(platform) \o "Handler"
    ELSE IF "Handler" \in ModuleClasses(platform) THEN "Handler"
    ELSE "None"

\* The platforms section of a configuration file: entries in file order, each
\* with its key and whether it has every field of a PlatformConfig.
Entries == [platform : Names, valid : BOOLEAN]
Files == UNION {[1..n -> Entries] : n \in 0..MaxEntries}
NoFile == <<[platform |-> "none", valid |-> FALSE]>>

\* The loop of load_from_config from entry i on: the configuration is stored,
\* then the handler if its module and class are found; an invalid entry raises
\* ValueError and leaves what was stored before it.
RECURSIVE LoadEntries(_, _, _)
LoadEntries(reg, file, i) ==
    IF i > Len(file) THEN [reg |-> [reg EXCEPT !.initialized = TRUE], raised |-> FALSE]
    ELSE IF ~file[i].valid THEN [reg |-> reg, raised |-> TRUE]
    ELSE LET platform == file[i].platform
             stored == [reg EXCEPT !.configs = SetItem(@, LowerName(platform), "yaml")]
         IN  IF HandlerClass(platform) \in {"ImportError", "None"}
             THEN LoadEntries(stored, file, i + 1)
             ELSE LoadEntries([stored EXCEPT !.handlers =
                                  SetItem(@, LowerName(platform), HandlerClass(platform))],
                              file, i + 1)

\* PlatformRegistry.load_from_config(config_path) for an existing file.
LoadFromConfig(reg, file) == LoadEntries(reg, file, 1)

\* PlatformRegistry._register_builtin_configs()
RegisterBuiltinConfigs(reg) ==
    [reg EXCEPT !.configs = SetItem(SetItem(SetItem(@, "facebook", "builtin"),
                                            "tiktok", "builtin"), "youtube", "builtin"),
                !.initialized = TRUE]

\* PlatformRegistry.load_default_config(): the first configuration file that
\* exists, the built-in configurations when there is none.
LoadDefaultConfig(reg, file) ==
    IF file = NoFile THEN [reg |-> RegisterBuiltinConfigs(reg), raised |-> FALSE]
    ELSE LoadFromConfig(reg, file)

\* -------------------------------------------------- request parameters
\* Keys of a caller's parameter map: parameters of the providers and the
\* tracking fields of the request, each with a date or an empty value.  A
\* params argument is a dict (isDict, with its items) or not (NotDict).
ParamKeys == {"url", "start_date", "dataset_id", "platform", "competitor", "profiles",
              "resultsPerPage"}
ParamValues == {"2024-01-31", ""}
EmptyDict == [k \in {} |-> ""]
Dict(items) == [isDict |-> TRUE, items |-> items]
NotDict == [isDict |-> FALSE, items |-> EmptyDict]
ParamMaps == {Dict(items) : items \in UNION {[K -> ParamValues] : K \in SUBSET ParamKeys}}

\* expected_params of FacebookHandler.prepare_request_params, and the keys
\* TikTokHandler.prepare_request_params copies or sets.
FacebookExpected == {"url", "num_of_posts", "start_date", "end_date",
                     "include_profile_data", "dataset_id"}
ApifyParams == {"excludePinnedPosts", "profileScrapeSections", "profileSorting",
                "proxyCountryCode", "resultsPerPage", "scrapeRelatedVideos",
                "shouldDownloadAvatars", "shouldDownloadCovers", "shouldDownloadMusicCovers",
                "shouldDownloadSlideshowImages", "shouldDownloadSubtitles",
                "shouldDownloadVideos"}
TikTokExpected == {"profiles", "newestPostDate", "oldestPostDateUnified"} \cup ApifyParams

\* FacebookHandler._convert_date_format: YYYY-MM-DD becomes MM-DD-YYYY, any
\* other string is returned as it is.
ConvertDateFormat(date_str) == IF date_str = "2024-01-31" THEN "01-31-2024" ELSE date_str

\* FacebookHandler.prepare_request_params(params)
FacebookPrepareRequestParams(params) ==
    IF ~params.isDict THEN EmptyDict
    ELSE [key \in DOMAIN params.items \cap FacebookExpected |->
             IF key \in {"start_date", "end_date"} /\ params.items[key] # ""
             THEN ConvertDateFormat(params.items[key])
             ELSE params.items[key]]

\* The defaults TikTokHandler.prepare_request_params sets.
TikTokDefaults ==
    [excludePinnedPosts |-> "True", profileScrapeSections |-> "['videos']",
     profileSorting |-> "latest", proxyCountryCode |-> "None", resultsPerPage |-> "10"]

\* TikTokHandler.prepare_request_params(params): profiles from url (as a list
\* of one) or from profiles, the Apify parameters present, then the defaults.
TikTokPrepareRequestParams(params) ==
    IF ~params.isDict THEN EmptyDict
    ELSE LET items == params.items
             profiles == IF "url" \in DOMAIN items THEN {"profiles"}
                         ELSE {"profiles"} \cap DOMAIN items
             copied == DOMAIN items \cap ({"newestPostDate", "oldestPostDateUnified"}
                                           \cup ApifyParams)
         IN  [key \in profiles \cup copied \cup DOMAIN TikTokDefaults |->
                 IF key = "profiles"
                 THEN IF "url" \in DOMAIN items THEN "[" \o items["url"] \o "]"
                      ELSE items["profiles"]
                 ELSE IF key \in copied THEN items[key]
                 ELSE TikTokDefaults[key]]

\* Not the code: the caller's map passed on as it is. C32 must tell it apart.
PassParams(handler, params) == params.items

\* platform_handler.prepare_request_params(crawl_params)
PrepareRequestParams(handler, params) ==
    IF handler = "facebook" THEN FacebookPrepareRequestParams(params)
    ELSE TikTokPrepareRequestParams(params)

\* What the provider is sent.  BrightData: trigger_crawl sets dataset_id from
\* the configuration, the client sends it in the query string and the other
\* parameters as the JSON body.  Apify: the parameters are the run input.
TriggerPayload(handler, prepared) ==
    IF handler = "facebook"
    THEN [query |-> {"dataset_id", "include_errors"},
          body |-> [key \in DOMAIN prepared \ {"dataset_id"} |-> prepared[key]]]
    ELSE [query |-> {}, body |-> prepared]

NoPayload == [query |-> {}, body |-> EmptyDict]
NoPrep == [handler |-> "none", params |-> NotDict, pc |-> "none", out |-> EmptyDict,
           payload |-> NoPayload]
Preps == [handler : Handlers, params : ParamMaps \cup {NotDict}, pc : {"called"},
          out : {EmptyDict}, payload : {NoPayload}]

\* ---------------------------------------------------------------- media
\* Python values of a record's media fields: the type, the truth value, the
\* elements of a list (each a dict with or without a type, or an int) and
\* whether a dict has the key duration.
PyNone == [type |-> "NoneType", truthy |-> FALSE, elems |-> <<>>]
PyStr == [type |-> "str", truthy |-> TRUE, elems |-> <<>>]
PyList(elems) == [type |-> "list", truthy |-> elems # <<>>, elems |-> elems]
PyDict(elems) == [type |-> "dict", truthy |-> elems # <<>>, elems |-> elems]
Photo == "{'type': 'photo'}"
Untyped == "{}"
AnInt == "1"

AttachmentsValues ==
    {PyNone, PyStr, PyList(<<>>), PyList(<<Photo>>), PyList(<<Photo, Untyped>>),
     PyList(<<AnInt>>)}
VideoMetaValues == {PyNone, PyStr, PyList(<<AnInt>>), PyDict(<<>>), PyDict(<<"duration">>)}

\* A record: a dict with the media fields it has, or a value that is no dict.
MediaFields == {"attachments", "videoMeta"}
FieldValues(key) == IF key = "attachments" THEN AttachmentsValues ELSE VideoMetaValues
Record(fields) == [isDict |-> TRUE, fields |-> fields]
NotRecord == [isDict |-> FALSE, fields |-> [key \in {} |-> PyNone]]
Records ==
    {NotRecord} \cup
    {Record(fields) : fields \in UNION {{f \in [K -> AttachmentsValues \cup VideoMetaValues] :
                                           \A key \in K : f[key] \in FieldValues(key)} :
                                        K \in SUBSET MediaFields}}

\* data.get(key, default)
DictGet(data, key, default) ==
    IF key \in DOMAIN data.fields THEN data.fields[key] ELSE default

\* The result of extract_media_info, or the exception it raises.
MediaInfo(has_media, media_count, media_types) ==
    [raised |-> FALSE, has_media |-> has_media, media_count |-> media_count,
     media_types |-> media_types]
AttributeError == [raised |-> TRUE, has_media |-> FALSE, media_count |-> 0, media_types |-> <<>>]

\* attachment.get('type', '') of the attachments that are dicts with a type.
RECURSIVE AttachmentTypes(_)
AttachmentTypes(attachments) ==
    IF attachments = <<>> THEN <<>>
    ELSE (IF Head(attachments) = Photo THEN <<"photo">> ELSE <<>>)
         \o AttachmentTypes(Tail(attachments))

\* FacebookHandler.extract_media_info(data)
FacebookExtractMediaInfo(data) ==
    IF ~data.isDict THEN MediaInfo(FALSE, 0, <<>>)
    ELSE LET attachments == DictGet(data, "attachments", PyList(<<>>))
         IN  IF ~attachments.truthy \/ attachments.type # "list"
             THEN MediaInfo(FALSE, 0, <<>>)
             ELSE MediaInfo(TRUE, Len(attachments.elems), AttachmentTypes(attachments.elems))

\* TikTokHandler.extract_media_info(data): data.get and video_meta.get are
\* attribute lookups, which raise AttributeError on a value that is no dict.
TikTokExtractMediaInfo(data) ==
    IF ~data.isDict THEN AttributeError
    ELSE LET video_meta == DictGet(data, "videoMeta", PyDict(<<>>))
             has_video == video_meta.truthy
         IN  IF video_meta.type # "dict" THEN AttributeError
             ELSE MediaInfo(has_video, IF has_video THEN 1 ELSE 0,
                            IF has_video THEN <<"video">> ELSE <<>>)

\* platform_handler.extract_media_info(item)
ExtractMediaInfo(handler, data) ==
    IF handler = "facebook" THEN FacebookExtractMediaInfo(data)
    ELSE TikTokExtractMediaInfo(data)

\* _count_media_files_platform_aware(data, platform_handler): the media counts
\* of the items that are dicts, up to the first item whose extraction raises
\* (the exception is logged and the count so far returned).
RECURSIVE CountMediaFilesPlatformAware(_, _, _)
CountMediaFilesPlatformAware(data, handler, media_count) ==
    IF data = <<>> THEN media_count
    ELSE IF ~Head(data).isDict
    THEN CountMediaFilesPlatformAware(Tail(data), handler, media_count)
    ELSE IF ExtractMediaInfo(handler, Head(data)).raised THEN media_count
    ELSE CountMediaFilesPlatformAware(Tail(data), handler,
              media_count + ExtractMediaInfo(handler, Head(data)).media_count)

NoMedia == [handler |-> "none", data |-> <<>>, pc |-> "none",
            out |-> MediaInfo(FALSE, 0, <<>>), counted |-> FALSE, media_count |-> 0]
MediaCalls == [handler : Handlers, data : UNION {[1..n -> Records] : n \in 1..MaxItems},
               pc : {"called"}, out : {MediaInfo(FALSE, 0, <<>>)}, counted : {FALSE},
               media_count : {0}]

\* ------------------------------------------------------ provider clients
\* BrightDataClient and ApifyAPIClient of api_clients.  The job at the
\* provider is running, ready (BrightData ready, Apify SUCCEEDED) or failed.
Clients == {"brightdata", "apify"}
JobStates == {"running", "ready", "failed"}

\* What the provider does with a download request: BrightData answers GET
\* /snapshot/<id> with 200 and the data of a ready snapshot and with another
\* status while there is none; Apify answers the run lookup with the run, and
\* the dataset listing with the items.  Either may fail in transport.
BrightDataAnswers(state) == IF state = "ready" THEN {"200", "500", "ClientError"}
                            ELSE {"202", "500", "ClientError"}
ApifyAnswers == {"run", "run without dataset", "exception"}

\* The result of download_data: the items returned, or the APIClientError
\* raised, named by its message.
Downloaded(data) == [error |-> "none", data |-> data]
APIClientError(message) == [error |-> message, data |-> <<>>]

\* The JSONL loop of BrightDataClient.download_data: every line that is not
\* blank and loads, whatever it decodes to.
RECURSIVE LoadedLines(_)
LoadedLines(lines) ==
    IF lines = <<>> THEN <<>>
    ELSE (IF Strip(Head(lines)) # <<>> /\ Loads(Head(lines)).ok
          THEN <<Object(Head(lines), Loads(Head(lines)).at, Loads(Head(lines)).end)>>
          ELSE <<>>)
         \o LoadedLines(Tail(lines))

\* data[:limit] if limit and len(data) > limit
Limited(data, limit) ==
    IF limit # 0 /\ Len(data) > limit THEN SubSeq(data, 1, limit) ELSE data

\* BrightDataClient.download_data(job_id, limit): no status check; a status
\* other than 200 and a transport error raise, a 200 body is read as JSONL.
BrightDataDownloadData(state, answer, raw_text, limit) ==
    IF answer = "ClientError" THEN APIClientError("Network error during download")
    ELSE IF answer # "200" THEN APIClientError("Failed to download data")
    ELSE Downloaded(Limited(LoadedLines(Split(Strip(raw_text), 0)), limit))

\* ApifyAPIClient.download_data(job_id, limit): the run must have SUCCEEDED
\* and have a dataset; list_items returns at most limit items.
ApifyDownloadData(state, answer, items, limit) ==
    IF answer = "exception" THEN APIClientError("Failed to download data")
    ELSE IF state # "ready" THEN APIClientError("Job not completed yet")
    ELSE IF answer = "run without dataset" THEN APIClientError("No dataset available for this job")
    ELSE Downloaded(IF limit # 0 /\ Len(items) > limit THEN SubSeq(items, 1, limit) ELSE items)

Bodies == UNION {[1..n -> Pieces] : n \in 1..MaxLines}
NoAdapter == [client |-> "none", state |-> "running", body |-> <<>>, limit |-> 0,
              pc |-> "none", answer |-> "none", is_ready |-> "none",
              result |-> Downloaded(<<>>)]
Adapters == [client : Clients, state : JobStates, body : Bodies, limit : {0, 1},
             pc : {"called"}, answer : {"none"}, is_ready : {"none"},
             result : {Downloaded(<<>>)}]

\* ----------------------------------------------------------- executors
\* app.py's executor ("crawl-poller") and CrawlHandler.executor: both are
\* ThreadPoolExecutor(max_workers = BACKGROUND_MAX_WORKERS).
Executors == {"app", "handler"}
IdleExecutors == [e \in Executors |-> [queue |-> <<>>, running |-> {}, done |-> {}]]

\* executor.submit: the work item joins the executor's queue.
Submit(ex, e, c) == [ex EXCEPT ![e].queue = Append(@, c)]

\* ------------------------------------------------------------- helpers
ZeroEv == [s \in Statuses |-> 0]
ZeroBus == [t \in Topics |-> 0]
NoRun == [pc |-> "idle", snap |-> "none", n |-> 0, attempt |-> 0, trace |-> <<>>,
          result |-> "none"]
NoGhost == [appErr |-> 0, appReady |-> 0, appFailed |-> FALSE, hErr |-> 0, hReady |-> 0,
            hFailed |-> FALSE]

\* The status record written by _store_crawl_metadata / _update_crawl_status.
Recorded(ev, status) == [ev EXCEPT ![status] = @ + 1]

cfgVars == <<enabled, max_polls>>
\* State of the components that are also modelled on their own.
unitVars == <<executors, call, snapshot, registry, prep, media, adapter, scan>>
trigVars == <<req, trig, provCalls>>
infraVars == <<bqUp, pubUp, nFlips>>
storeVars == <<bq, local, latest, nEv>>
sinkVars == <<gcs, summary>>
appVars == <<active_background_tasks, appPc, appPolls>>
hVars == <<hPc, hPolls>>
\* The crawl variables, which the components modelled on their own leave alone.
crawlVars == <<cfgVars, infraVars, today, trigVars, prov, payload, storeVars, bus,
               sinkVars, appVars, hVars, run, nRuns, resp, ghost>>
\* For each component, the state of the other components.
poolRest == <<call, snapshot, registry, prep, media, adapter, scan>>
pathRest == <<executors, snapshot, registry, prep, media, adapter, scan>>
parseRest == <<executors, call, registry, prep, media, adapter, scan>>
registryRest == <<executors, call, snapshot, prep, media, adapter, scan>>
prepRest == <<executors, call, snapshot, registry, media, adapter, scan>>
mediaRest == <<executors, call, snapshot, registry, prep, adapter, scan>>
adapterRest == <<executors, call, snapshot, registry, prep, media, scan>>
scanRest == <<executors, call, snapshot, registry, prep, media, adapter>>

\* _update_crawl_status(crawl_id, status, error_message): the row goes into
\* BigQuery if the insert goes through (otherwise it returned errors or raised),
\* and the local store records the status either way.
UpdateCrawlStatus(j, status, err) ==
    /\ bq' = [bq EXCEPT ![j] = UpdateBq(@, local[j], status, err, bqUp)]
    /\ local' = [local EXCEPT ![j] = UpdateLocal(@, status, err)]
    /\ latest' = [latest EXCEPT ![j] = status]
    /\ nEv' = [nEv EXCEPT ![j] = Recorded(@, status)]

\* The attempt budgets explored: BACKGROUND_MAX_POLLS = 1 and = MaxPolls.
Budgets == {1, MaxPolls}

\* The state after construction (CrawlHandler.__init__, the globals of app.py),
\* whatever the configuration and the state of the warehouse and of Pub/Sub.
InitCrawl ==
    /\ enabled \in BOOLEAN
    /\ max_polls \in Budgets
    /\ today = 0
    /\ bqUp \in BOOLEAN
    /\ pubUp \in BOOLEAN
    /\ nFlips = 0
    /\ req \in [Jobs -> Requests]
    /\ trig = [j \in Jobs |-> "none"]
    /\ provCalls = [j \in Jobs |-> 0]
    /\ prov = [j \in Jobs |-> "none"]
    /\ payload = [j \in Jobs |-> 0]
    /\ bq = [j \in Jobs |-> {}]
    /\ local = [j \in Jobs |-> NoLocal]
    /\ latest = [j \in Jobs |-> "none"]
    /\ nEv = [j \in Jobs |-> ZeroEv]
    /\ bus = [j \in Jobs |-> ZeroBus]
    /\ gcs = [j \in Jobs |-> {}]
    /\ summary = [j \in Jobs |-> {}]
    /\ active_background_tasks = {}
    /\ appPc = [j \in Jobs |-> "none"]
    /\ appPolls = [j \in Jobs |-> 0]
    /\ hPc = [j \in Jobs |-> "none"]
    /\ hPolls = [j \in Jobs |-> 0]
    /\ run = [j \in Jobs |-> [a \in Actors |-> NoRun]]
    /\ nRuns = [j \in Jobs |-> 0]
    /\ resp = [j \in Jobs |-> "none"]
    /\ ghost = [j \in Jobs |-> NoGhost]

InitState == InitCrawl /\ executors = IdleExecutors /\ call = NoCall /\ snapshot = NoSnapshot /\ registry = NoRegistry /\ prep = NoPrep /\ media = NoMedia /\ adapter = NoAdapter /\ scan = NoScan

\* For each component, the other components before any use.
poolRestIdle == call = NoCall /\ snapshot = NoSnapshot /\ registry = NoRegistry /\ prep = NoPrep /\ media = NoMedia /\ adapter = NoAdapter /\ scan = NoScan
pathRestIdle == executors = IdleExecutors /\ snapshot = NoSnapshot /\ registry = NoRegistry /\ prep = NoPrep /\ media = NoMedia /\ adapter = NoAdapter /\ scan = NoScan
parseRestIdle == executors = IdleExecutors /\ call = NoCall /\ registry = NoRegistry /\ prep = NoPrep /\ media = NoMedia /\ adapter = NoAdapter /\ scan = NoScan
registryRestIdle == executors = IdleExecutors /\ call = NoCall /\ snapshot = NoSnapshot /\ prep = NoPrep /\ media = NoMedia /\ adapter = NoAdapter /\ scan = NoScan
prepRestIdle == executors = IdleExecutors /\ call = NoCall /\ snapshot = NoSnapshot /\ registry = NoRegistry /\ media = NoMedia /\ adapter = NoAdapter /\ scan = NoScan
mediaRestIdle == executors = IdleExecutors /\ call = NoCall /\ snapshot = NoSnapshot /\ registry = NoRegistry /\ prep = NoPrep /\ adapter = NoAdapter /\ scan = NoScan
adapterRestIdle == executors = IdleExecutors /\ call = NoCall /\ snapshot = NoSnapshot /\ registry = NoRegistry /\ prep = NoPrep /\ media = NoMedia /\ scan = NoScan
scanRestIdle == executors = IdleExecutors /\ call = NoCall /\ snapshot = NoSnapshot /\ registry = NoRegistry /\ prep = NoPrep /\ media = NoMedia /\ adapter = NoAdapter

\* One configuration, for the components modelled on their own.
InitQuiet ==
    /\ InitCrawl /\ enabled /\ max_polls = MaxPolls /\ bqUp /\ pubUp
    /\ \A j \in Jobs : req[j] = [platform |-> "facebook", url |-> NoUrl]

\* ---------------------------------------------------------- environment
\* The provider finishes the snapshot: ready with its payload, or failed.
ProviderFinish(j) ==
    /\ prov[j] = "running"
    /\ \E outcome \in {"ready", "failed"}, n \in {0, MaxRecs} :
          /\ prov' = [prov EXCEPT ![j] = outcome]
          /\ payload' = [payload EXCEPT ![j] = IF outcome = "ready" THEN n ELSE 0]
    /\ UNCHANGED <<cfgVars, unitVars, infraVars, today, trigVars, storeVars, bus, sinkVars, appVars,
                   hVars, run, nRuns, resp, ghost>>

\* The warehouse goes down, or comes back.
WarehouseFlip ==
    /\ nFlips < MaxFlips
    /\ nFlips' = nFlips + 1
    /\ bqUp' = ~bqUp
    /\ UNCHANGED <<cfgVars, unitVars, pubUp, today, trigVars, prov, payload, storeVars, bus, sinkVars,
                   appVars, hVars, run, nRuns, resp, ghost>>

\* ---------------------------------------------------------------- trigger
\* Not the code: a trigger that calls the provider a second time when the
\* first call fails. C23 must tell it apart.
TriggerCrawlRetrying(j) ==
    /\ trig[j] = "none"
    /\ req' = [req EXCEPT ![j] = NoRequest]
    /\ \E first, provOk \in BOOLEAN :
       /\ provCalls' = [provCalls EXCEPT ![j] =
                           IF Admission(req[j]) # "call" THEN @ ELSE IF first THEN @ + 1 ELSE @ + 2]
       /\
          IF Admission(req[j]) \in {"unsupported", "invalid"}
          THEN /\ trig' = [trig EXCEPT ![j] = Admission(req[j])]
               /\ UNCHANGED <<prov, storeVars, bus, appPc, hPc>>
          ELSE IF Admission(req[j]) = "raise" \/ ~provOk
          THEN \* except clause: _update_crawl_status(crawl_id, 'failed', str(e))
               /\ trig' = [trig EXCEPT ![j] = "error"]
               /\ UpdateCrawlStatus(j, "failed", TRUE)
               /\ UNCHANGED <<prov, bus, appPc, hPc>>
          ELSE /\ trig' = [trig EXCEPT ![j] = "success"]
               /\ prov' = [prov EXCEPT ![j] = "running"]
               /\ bq' = [bq EXCEPT ![j] = StoreBq(@, bqUp)]
               /\ local' = [local EXCEPT ![j] = StoreLocal(@, bqUp)]
               /\ latest' = [latest EXCEPT ![j] = "triggered"]
               /\ nEv' = [nEv EXCEPT ![j] = Recorded(@, "triggered")]
               /\ hPc' = [hPc EXCEPT ![j] = IF enabled THEN "queued" ELSE @]
               /\ bus' = [bus EXCEPT ![j] = Publish(@, "crawl-triggered", pubUp)]
               /\ appPc' = [appPc EXCEPT ![j] = IF enabled THEN "queued" ELSE @]
    /\ UNCHANGED <<cfgVars, unitVars, infraVars, today, payload, sinkVars,
                   active_background_tasks, appPolls, hPolls, run, nRuns, resp, ghost>>

\* POST /api/v1/crawl/trigger: CrawlHandler.trigger_crawl, then the route's
\* publish_crawl_triggered and executor.submit(background_poll_and_download).
\* The platform has no handler or the parameters fail validation (the error is
\* returned), validation or the provider's trigger raises (the except clause),
\* or the provider returns a snapshot id.
TriggerCrawl(j) ==
    /\ trig[j] = "none"
    /\ req' = [req EXCEPT ![j] = NoRequest]
    /\ provCalls' = [provCalls EXCEPT ![j] = IF Admission(req[j]) = "call" THEN @ + 1 ELSE @]
    /\ \E provOk \in BOOLEAN :
          IF Admission(req[j]) \in {"unsupported", "invalid"}
          THEN /\ trig' = [trig EXCEPT ![j] = Admission(req[j])]
               /\ UNCHANGED <<prov, storeVars, bus, appPc, hPc>>
          ELSE IF Admission(req[j]) = "raise" \/ ~provOk
          THEN \* except clause: _update_crawl_status(crawl_id, 'failed', str(e))
               /\ trig' = [trig EXCEPT ![j] = "error"]
               /\ UpdateCrawlStatus(j, "failed", TRUE)
               /\ UNCHANGED <<prov, bus, appPc, hPc>>
          ELSE /\ trig' = [trig EXCEPT ![j] = "success"]
               /\ prov' = [prov EXCEPT ![j] = "running"]
               /\ bq' = [bq EXCEPT ![j] = StoreBq(@, bqUp)]
               /\ local' = [local EXCEPT ![j] = StoreLocal(@, bqUp)]
               /\ latest' = [latest EXCEPT ![j] = "triggered"]
               /\ nEv' = [nEv EXCEPT ![j] = Recorded(@, "triggered")]
               /\ hPc' = [hPc EXCEPT ![j] = IF enabled THEN "queued" ELSE @]
               /\ bus' = [bus EXCEPT ![j] = Publish(@, "crawl-triggered", pubUp)]
               /\ appPc' = [appPc EXCEPT ![j] = IF enabled THEN "queued" ELSE @]
    /\ UNCHANGED <<cfgVars, unitVars, infraVars, today, payload, sinkVars,
                   active_background_tasks, appPolls, hPolls, run, nRuns, resp, ghost>>

\* ----------------------------------------------------------------- status
\* GET /api/v1/crawl/<id>/status: the status of the response (404 not_found,
\* 500 exception on crawl_metadata['snapshot_id'], else from poll_crawl_status).
StatusView(m, p, httpOk) ==
    IF ~m.found THEN "not_found"
    ELSE IF ~m.hasSnap THEN "exception"
    ELSE IF PollCrawlStatus(m.snap, p, httpOk).error THEN "error"
    ELSE IF PollCrawlStatus(m.snap, p, httpOk).is_ready THEN "ready"
    ELSE "processing"

\* Not the code: a status route that, like the pollers' download, records what
\* it found ('downloading' when the provider is ready). C10 must tell it apart.
GetCrawlStatusRecording(j) ==
    /\ \E m \in GetCrawlMetadata(bq[j], local[j], bqUp), httpOk \in BOOLEAN :
          /\ resp' = [resp EXCEPT ![j] = StatusView(m, prov[j], httpOk)]
          /\ IF StatusView(m, prov[j], httpOk) = "ready"
             THEN UpdateCrawlStatus(j, "downloading", FALSE)
             ELSE UNCHANGED storeVars
    /\ UNCHANGED <<cfgVars, unitVars, infraVars, today, trigVars, prov, payload, bus,
                   sinkVars, appVars, hVars, run, nRuns, ghost>>

GetCrawlStatus(j) ==
    /\ \E m \in GetCrawlMetadata(bq[j], local[j], bqUp), httpOk \in BOOLEAN :
          resp' = [resp EXCEPT ![j] = StatusView(m, prov[j], httpOk)]
    /\ UNCHANGED <<cfgVars, unitVars, infraVars, today, trigVars, prov, payload, storeVars, bus,
                   sinkVars, appVars, hVars, run, nRuns, ghost>>

\* --------------------------------------------------------------- download
\* CrawlHandler._async_download_data, one step per call that blocks.
MaxRetries == 3

SetRun(j, a, r) == run' = [run EXCEPT ![j][a] = r]

\* The run has returned to its caller: what stays is what the caller was given.
Done(r) == [NoRun EXCEPT !.pc = "done", !.result = r.result, !.n = r.n]

Goto(r, pc) == [r EXCEPT !.pc = pc]
Return(r, result) == [r EXCEPT !.pc = "ret", !.result = result]
Traced(r, what) == [r EXCEPT !.trace = Append(@, what)]

\* The object-storage path: platform_handler.get_storage_path(snapshot_id,
\* competitor, brand, category, datetime.utcnow()).
StoragePath(snap, day) == [snap |-> snap, day |-> day]

\* except Exception as e: self._update_crawl_status(crawl_id, 'failed', str(e)),
\* the failure notification, return the error.
DlFailed(j, a, r) ==
    /\ UpdateCrawlStatus(j, "failed", TRUE)
    /\ bus' = [bus EXCEPT ![j] = PublishDataIngestionFailed(@)]
    /\ SetRun(j, a, Return(Traced(r, "failed"), "exception"))

\* crawl_metadata = self._get_crawl_metadata(crawl_id): not found returns the
\* error; snapshot_id = crawl_metadata['snapshot_id'] (KeyError: the except
\* clause); self._update_crawl_status(crawl_id, 'downloading').
DlBegin(j, a) ==
    /\ run[j][a].pc = "start"
    /\ \E m \in GetCrawlMetadata(bq[j], local[j], bqUp) :
          IF ~m.found
          THEN /\ SetRun(j, a, Return(run[j][a], "not_found"))
               /\ UNCHANGED <<storeVars, bus>>
          ELSE IF ~m.hasSnap
          THEN DlFailed(j, a, run[j][a])
          ELSE /\ UpdateCrawlStatus(j, "downloading", FALSE)
               /\ SetRun(j, a, [Traced(run[j][a], "downloading") EXCEPT
                                   !.pc = "check", !.snap = m.snap])
               /\ bus' = bus
    /\ UNCHANGED <<cfgVars, unitVars, infraVars, today, trigVars, prov, payload, sinkVars, appVars,
                   hVars, nRuns, resp, ghost>>

\* Not the code: a download that goes on to the adapter whatever check_status
\* reports. C8 must tell it apart.
DlCheckStatusIgnored(j, a) ==
    /\ run[j][a].pc = "check"
    /\ \E httpOk \in BOOLEAN :
          LET st == CheckStatus(run[j][a].snap, prov[j], httpOk) IN
          IF st = "raise"
          THEN DlFailed(j, a, run[j][a])
          ELSE /\ SetRun(j, a, Goto(run[j][a], "fetch"))
               /\ UNCHANGED <<storeVars, bus>>
    /\ UNCHANGED <<cfgVars, unitVars, infraVars, today, trigVars, prov, payload, sinkVars, appVars,
                   hVars, nRuns, resp, ghost>>

\* status_result = await api_client.check_status(snapshot_id); not ready: return
\* the 'Crawl not ready for download' error.
DlCheckStatus(j, a) ==
    /\ run[j][a].pc = "check"
    /\ \E httpOk \in BOOLEAN :
          LET st == CheckStatus(run[j][a].snap, prov[j], httpOk) IN
          IF st = "raise"
          THEN DlFailed(j, a, run[j][a])
          ELSE /\ SetRun(j, a, IF st = "not_ready" THEN Return(run[j][a], "not_ready")
                               ELSE Goto(run[j][a], "fetch"))
               /\ UNCHANGED <<storeVars, bus>>
    /\ UNCHANGED <<cfgVars, unitVars, infraVars, today, trigVars, prov, payload, sinkVars, appVars,
                   hVars, nRuns, resp, ghost>>

\* data = await api_client.download_data(snapshot_id); if not data: return the
\* 'No data received from API' error; data = parse_api_response(data);
\* self._update_crawl_status(crawl_id, 'downloaded').
DlFetch(j, a) ==
    /\ run[j][a].pc = "fetch"
    /\ \E httpOk \in BOOLEAN :
          IF ~httpOk
          THEN DlFailed(j, a, run[j][a])
          ELSE IF payload[j] = 0
          THEN /\ SetRun(j, a, Return(Traced(run[j][a], "fetch"), "no_data"))
               /\ UNCHANGED <<storeVars, bus>>
          ELSE /\ UpdateCrawlStatus(j, "downloaded", FALSE)
               /\ SetRun(j, a, [Traced(Traced(run[j][a], "fetch"), "downloaded") EXCEPT
                                   !.pc = "gcs", !.n = payload[j]])
               /\ bus' = bus
    /\ UNCHANGED <<cfgVars, unitVars, infraVars, today, trigVars, prov, payload, sinkVars, appVars,
                   hVars, nRuns, resp, ghost>>

\* Not the code: an upload whose first failure is raised at once. C22 must tell
\* it apart.
DlStoreRawDataGcsOnce(j, a) ==
    /\ run[j][a].pc = "gcs"
    /\ \E ok \in BOOLEAN, d \in today..MaxDay :
          /\ today' = d
          /\ IF ok
             THEN /\ gcs' = [gcs EXCEPT ![j] = @ \cup {StoragePath(run[j][a].snap, d)}]
                  /\ SetRun(j, a, Goto(Traced(run[j][a], "gcs"), "w_uploaded"))
                  /\ UNCHANGED <<storeVars, bus>>
             ELSE /\ gcs' = gcs
                  /\ DlFailed(j, a, run[j][a])
    /\ UNCHANGED <<cfgVars, unitVars, infraVars, trigVars, prov, payload, summary, appVars, hVars,
                   nRuns, resp, ghost>>

\* _store_raw_data_gcs: one upload attempt of at most max_retries, on the day d
\* it runs; the last failure is raised.
DlStoreRawDataGcs(j, a) ==
    /\ run[j][a].pc = "gcs"
    /\ \E ok \in BOOLEAN, d \in today..MaxDay :
          /\ today' = d
          /\ IF ok
             THEN /\ gcs' = [gcs EXCEPT ![j] = @ \cup {StoragePath(run[j][a].snap, d)}]
                  /\ SetRun(j, a, Goto(Traced(run[j][a], "gcs"), "w_uploaded"))
                  /\ UNCHANGED <<storeVars, bus>>
             ELSE /\ gcs' = gcs
                  /\ IF run[j][a].attempt + 1 < MaxRetries
                     THEN /\ SetRun(j, a, [run[j][a] EXCEPT !.attempt = @ + 1])
                          /\ UNCHANGED <<storeVars, bus>>
                     ELSE DlFailed(j, a, run[j][a])
    /\ UNCHANGED <<cfgVars, unitVars, infraVars, trigVars, prov, payload, summary, appVars, hVars,
                   nRuns, resp, ghost>>

\* Not the code: after 'uploaded' the run goes straight to 'completed', the
\* completion notification forgotten. C9 must tell it apart.
DlUploadedUnpublished(j, a) ==
    /\ run[j][a].pc = "w_uploaded"
    /\ UpdateCrawlStatus(j, "uploaded", FALSE)
    /\ summary' = [summary EXCEPT ![j] = IF bqUp THEN @ \cup {run[j][a].snap} ELSE @]
    /\ SetRun(j, a, Goto(Traced(Traced(run[j][a], "uploaded"), "summary"), "w_completed"))
    /\ UNCHANGED <<cfgVars, unitVars, infraVars, today, trigVars, prov, payload, bus, gcs, appVars,
                   hVars, nRuns, resp, ghost>>

\* self._update_crawl_status(crawl_id, 'uploaded'), then
\* _store_crawl_snapshot_bigquery (insert errors are logged only).
DlUploaded(j, a) ==
    /\ run[j][a].pc = "w_uploaded"
    /\ UpdateCrawlStatus(j, "uploaded", FALSE)
    /\ summary' = [summary EXCEPT ![j] = IF bqUp THEN @ \cup {run[j][a].snap} ELSE @]
    /\ SetRun(j, a, Goto(Traced(Traced(run[j][a], "uploaded"), "summary"), "publish"))
    /\ UNCHANGED <<cfgVars, unitVars, infraVars, today, trigVars, prov, payload, bus, gcs, appVars,
                   hVars, nRuns, resp, ghost>>

\* Not the code: a publish whose failure is raised into the run's except
\* clause. C20 must tell it apart.
DlPublishRaising(j, a) ==
    /\ run[j][a].pc = "publish"
    /\ IF pubUp
       THEN /\ bus' = [bus EXCEPT ![j] = Publish(@, "data-ingestion-completed", pubUp)]
            /\ SetRun(j, a, Goto(Traced(run[j][a], "publish"), "w_completed"))
            /\ UNCHANGED storeVars
       ELSE DlFailed(j, a, Traced(run[j][a], "publish"))
    /\ UNCHANGED <<cfgVars, unitVars, infraVars, today, trigVars, prov, payload, sinkVars,
                   appVars, hVars, nRuns, resp, ghost>>

\* publish_data_ingestion_completed (never raises: publish returns False).
DlPublish(j, a) ==
    /\ run[j][a].pc = "publish"
    /\ bus' = [bus EXCEPT ![j] = Publish(@, "data-ingestion-completed", pubUp)]
    /\ SetRun(j, a, Goto(Traced(run[j][a], "publish"), "w_completed"))
    /\ UNCHANGED <<cfgVars, unitVars, infraVars, today, trigVars, prov, payload, storeVars, sinkVars,
                   appVars, hVars, nRuns, resp, ghost>>

\* self._update_crawl_status(crawl_id, 'completed'); return success.
DlCompleted(j, a) ==
    /\ run[j][a].pc = "w_completed"
    /\ UpdateCrawlStatus(j, "completed", FALSE)
    /\ SetRun(j, a, Return(Traced(run[j][a], "completed"), "success"))
    /\ UNCHANGED <<cfgVars, unitVars, infraVars, today, trigVars, prov, payload, bus, sinkVars, appVars,
                   hVars, nRuns, resp, ghost>>

DownloadStep(j, a) ==
    \/ DlBegin(j, a)
    \/ DlCheckStatus(j, a)
    \/ DlFetch(j, a)
    \/ DlStoreRawDataGcs(j, a)
    \/ DlUploaded(j, a)
    \/ DlPublish(j, a)
    \/ DlCompleted(j, a)

\* POST /api/v1/crawl/<id>/download: the call ...
DownloadCall(j) ==
    /\ run[j]["manual"].pc \in {"idle", "done"}
    /\ nRuns[j] < MaxRuns
    /\ nRuns' = [nRuns EXCEPT ![j] = @ + 1]
    /\ SetRun(j, "manual", Goto(NoRun, "start"))
    /\ UNCHANGED <<cfgVars, unitVars, infraVars, today, trigVars, prov, payload, storeVars, bus,
                   sinkVars, appVars, hVars, resp, ghost>>

\* ... and its return: on success the route publishes the completion again.
DownloadReturn(j) ==
    /\ run[j]["manual"].pc = "ret"
    /\ bus' = [bus EXCEPT ![j] =
                  IF run[j]["manual"].result = "success"
                  THEN Publish(@, "data-ingestion-completed", pubUp) ELSE @]
    /\ SetRun(j, "manual", Done(run[j]["manual"]))
    /\ UNCHANGED <<cfgVars, unitVars, infraVars, today, trigVars, prov, payload, storeVars, sinkVars,
                   appVars, hVars, nRuns, resp, ghost>>

\* A status check that reached the provider for the job's snapshot and was
\* told that it failed (history for the claims).
SawFailed(found, snap, p, httpOk) == found /\ snap = "real" /\ httpOk /\ p = "failed"

\* ------------------------------------------------- app.py background poller
\* A worker of the app.py executor starts the submitted task: the job id goes
\* into active_background_tasks (no membership test precedes the add).
AppStart(j) ==
    /\ appPc[j] = "queued"
    /\ active_background_tasks' = active_background_tasks \cup {j}
    /\ appPc' = [appPc EXCEPT ![j] = "loop"]
    /\ appPolls' = [appPolls EXCEPT ![j] = 0]
    /\ UNCHANGED <<cfgVars, unitVars, infraVars, today, trigVars, prov, payload, storeVars, bus, sinkVars, hVars,
                   run, nRuns, resp, ghost>>

\* What one iteration of the while loop does after poll_count += 1 (n is the
\* new poll_count): "lookup" (metadata not found: failure published, break),
\* "exception" (the except clause), "error", "ready" or "pending".
AppIteration(m, p, httpOk) ==
    IF ~m.found THEN "lookup"
    ELSE IF ~m.hasSnap THEN "exception"
    ELSE IF PollCrawlStatus(m.snap, p, httpOk).error THEN "error"
    ELSE IF PollCrawlStatus(m.snap, p, httpOk).is_ready THEN "ready"
    ELSE "pending"

\* if poll_count >= max_polls - 5 (a polling error), max_polls - 3 (an exception)
ErrorWindow == 5
ExceptionWindow == 3

AppEscalates(kind, n, budget) ==
    \/ kind = "error" /\ n >= budget - ErrorWindow
    \/ kind = "exception" /\ n >= budget - ExceptionWindow

AppBreaks(kind, n, budget) == kind \in {"lookup", "ready"} \/ AppEscalates(kind, n, budget)

AppFailureStage(kind) ==
    IF kind = "lookup" THEN "metadata_lookup"
    ELSE IF kind = "error" THEN "brightdata_error"
    ELSE "polling_exception"

AppPoll(j) ==
    /\ appPc[j] = "loop"
    /\ \E m \in GetCrawlMetadata(bq[j], local[j], bqUp), httpOk \in BOOLEAN :
          LET n == appPolls[j] + 1
              kind == AppIteration(m, prov[j], httpOk)
          IN  /\ kind = "ready" => nRuns[j] < MaxRuns
              /\ nRuns' = [nRuns EXCEPT ![j] = IF kind = "ready" THEN @ + 1 ELSE @]
              /\ appPolls' = [appPolls EXCEPT ![j] = n]
              /\ bus' = [bus EXCEPT ![j] =
                            IF kind = "lookup" \/ AppEscalates(kind, n, max_polls)
                            THEN PublishCrawlFailed(@, AppFailureStage(kind), pubUp)
                            ELSE @]
              /\ run' = [run EXCEPT ![j]["app"] =
                            IF kind = "ready" THEN Goto(NoRun, "start") ELSE @]
              /\ appPc' = [appPc EXCEPT ![j] =
                              IF kind = "ready" THEN "download"
                              ELSE IF AppBreaks(kind, n, max_polls) \/ n >= max_polls
                              THEN "after" ELSE "loop"]
              /\ ghost' = [ghost EXCEPT ![j] =
                              [@ EXCEPT !.appErr = IF kind = "error" THEN @ + 1 ELSE @,
                                        !.appReady = IF kind = "ready" THEN n ELSE @,
                                        !.appFailed = @ \/ SawFailed(m.found, m.snap, prov[j], httpOk)]]
    /\ UNCHANGED <<cfgVars, unitVars, infraVars, today, trigVars, prov, payload, storeVars, sinkVars,
                   active_background_tasks, hVars, resp>>

\* download_result = crawl_handler.download_data(crawl_id) has returned: the
\* completion, or the download_failure, is published; break.
AppDownloadReturn(j) ==
    /\ appPc[j] = "download"
    /\ run[j]["app"].pc = "ret"
    /\ bus' = [bus EXCEPT ![j] =
                     IF run[j]["app"].result = "success"
                     THEN Publish(@, "data-ingestion-completed", pubUp)
                     ELSE PublishCrawlFailed(@, "download_failure", pubUp)]
    /\ SetRun(j, "app", Done(run[j]["app"]))
    /\ appPc' = [appPc EXCEPT ![j] = "after"]
    /\ UNCHANGED <<cfgVars, unitVars, infraVars, today, trigVars, prov, payload, storeVars, sinkVars,
                   active_background_tasks, appPolls, hVars, nRuns, resp, ghost>>

\* Not the code: the job id is removed after the loop, on the path that
\* publishes no timeout only. C36 must tell it apart.
AppFinishLeaking(j) ==
    /\ appPc[j] = "after"
    /\ bus' = [bus EXCEPT ![j] =
                     IF appPolls[j] >= max_polls
                     THEN PublishCrawlFailed(@, "polling_timeout", pubUp) ELSE @]
    /\ active_background_tasks' =
          IF appPolls[j] >= max_polls THEN active_background_tasks
          ELSE active_background_tasks \ {j}
    /\ appPc' = [appPc EXCEPT ![j] = "done"]
    /\ UNCHANGED <<cfgVars, unitVars, infraVars, today, trigVars, prov, payload, storeVars, sinkVars, appPolls,
                   hVars, run, nRuns, resp, ghost>>

\* After the loop: if poll_count >= max_polls the polling_timeout failure is
\* published; finally the job id leaves active_background_tasks.
AppFinish(j) ==
    /\ appPc[j] = "after"
    /\ bus' = [bus EXCEPT ![j] =
                     IF appPolls[j] >= max_polls
                     THEN PublishCrawlFailed(@, "polling_timeout", pubUp) ELSE @]
    /\ active_background_tasks' = active_background_tasks \ {j}
    /\ appPc' = [appPc EXCEPT ![j] = "done"]
    /\ UNCHANGED <<cfgVars, unitVars, infraVars, today, trigVars, prov, payload, storeVars, sinkVars, appPolls,
                   hVars, run, nRuns, resp, ghost>>

\* ------------------------------- CrawlHandler._background_poll_and_download
HStart(j) ==
    /\ hPc[j] = "queued"
    /\ hPc' = [hPc EXCEPT ![j] = "loop"]
    /\ hPolls' = [hPolls EXCEPT ![j] = 0]
    /\ UNCHANGED <<cfgVars, unitVars, infraVars, today, trigVars, prov, payload, storeVars, bus, sinkVars, appVars,
                   run, nRuns, resp, ghost>>

\* Not the code: a loop without the budget test, 'while True' for
\* 'while poll_count < self.background_max_polls'. C39 must tell it apart.
HPollUnbounded(j) ==
    /\ hPc[j] = "loop"
    /\ \E httpOk \in BOOLEAN :
          LET n == hPolls[j] + 1
              st == CheckStatus("real", prov[j], httpOk)
          IN  /\ st = "ready" => nRuns[j] < MaxRuns
              /\ nRuns' = [nRuns EXCEPT ![j] = IF st = "ready" THEN @ + 1 ELSE @]
              /\ hPolls' = [hPolls EXCEPT ![j] = n]
              /\ run' = [run EXCEPT ![j]["handler"] =
                            IF st = "ready" THEN Goto(NoRun, "start") ELSE @]
              /\ hPc' = [hPc EXCEPT ![j] =
                            IF st = "ready" THEN "download"
                            ELSE IF st = "raise" THEN "after"
                            ELSE "loop"]
              /\ ghost' = [ghost EXCEPT ![j] =
                              [@ EXCEPT !.hErr = IF st = "raise" THEN @ + 1 ELSE @,
                                        !.hReady = IF st = "ready" THEN n ELSE @,
                                        !.hFailed = @ \/ SawFailed(TRUE, "real", prov[j], httpOk)]]
    /\ UNCHANGED <<cfgVars, unitVars, infraVars, today, trigVars, prov, payload, storeVars, bus, sinkVars, appVars,
                   resp>>

\* One iteration: sleep, poll_count += 1, check_status on the snapshot id the
\* trigger passed; any exception breaks, readiness starts the download.
HPoll(j) ==
    /\ hPc[j] = "loop"
    /\ \E httpOk \in BOOLEAN :
          LET n == hPolls[j] + 1
              st == CheckStatus("real", prov[j], httpOk)
          IN  /\ st = "ready" => nRuns[j] < MaxRuns
              /\ nRuns' = [nRuns EXCEPT ![j] = IF st = "ready" THEN @ + 1 ELSE @]
              /\ hPolls' = [hPolls EXCEPT ![j] = n]
              /\ run' = [run EXCEPT ![j]["handler"] =
                            IF st = "ready" THEN Goto(NoRun, "start") ELSE @]
              /\ hPc' = [hPc EXCEPT ![j] =
                            IF st = "ready" THEN "download"
                            ELSE IF st = "raise" \/ n >= max_polls THEN "after"
                            ELSE "loop"]
              /\ ghost' = [ghost EXCEPT ![j] =
                              [@ EXCEPT !.hErr = IF st = "raise" THEN @ + 1 ELSE @,
                                        !.hReady = IF st = "ready" THEN n ELSE @,
                                        !.hFailed = @ \/ SawFailed(TRUE, "real", prov[j], httpOk)]]
    /\ UNCHANGED <<cfgVars, unitVars, infraVars, today, trigVars, prov, payload, storeVars, bus, sinkVars, appVars,
                   resp>>

HDownloadReturn(j) ==
    /\ hPc[j] = "download"
    /\ run[j]["handler"].pc = "ret"
    /\ SetRun(j, "handler", Done(run[j]["handler"]))
    /\ hPc' = [hPc EXCEPT ![j] = "after"]
    /\ UNCHANGED <<cfgVars, unitVars, infraVars, today, trigVars, prov, payload, storeVars, bus, sinkVars, appVars,
                   hPolls, nRuns, resp, ghost>>

\* if poll_count >= self.background_max_polls: publish_data_ingestion_failed
\* inside try/except: pass.
HFinish(j) ==
    /\ hPc[j] = "after"
    /\ bus' = [bus EXCEPT ![j] =
                  IF hPolls[j] >= max_polls THEN PublishDataIngestionFailed(@) ELSE @]
    /\ hPc' = [hPc EXCEPT ![j] = "done"]
    /\ UNCHANGED <<cfgVars, unitVars, infraVars, today, trigVars, prov, payload, storeVars, sinkVars, appVars,
                   hPolls, run, nRuns, resp, ghost>>

\* ------------------------------------------------------------------ system
\* The service with background polling as configured: triggers, the provider,
\* the download route and both pollers, Pub/Sub delivering.
Init == InitState /\ pubUp

Next ==
    \E j \in Jobs :
       \/ TriggerCrawl(j)
       \/ ProviderFinish(j)
       \/ DownloadCall(j)
       \/ DownloadReturn(j)
       \/ \E a \in Actors : DownloadStep(j, a)
       \/ AppStart(j)
       \/ AppPoll(j)
       \/ AppDownloadReturn(j)
       \/ AppFinish(j)
       \/ HStart(j)
       \/ HPoll(j)
       \/ HDownloadReturn(j)
       \/ HFinish(j)

Spec == Init /\ [][Next]_vars

\* The service with background polling disabled, driven through its routes
\* (trigger, download, status), with warehouse outages and Pub/Sub failures.
InitManual == InitState /\ ~enabled /\ max_polls = MaxPolls

NextManual ==
    \/ WarehouseFlip
    \/ \E j \in Jobs :
          \/ TriggerCrawl(j)
          \/ ProviderFinish(j)
          \/ GetCrawlStatus(j)
          \/ DownloadCall(j)
          \/ DownloadReturn(j)
          \/ DownloadStep(j, "manual")

SpecManual == InitManual /\ [][NextManual]_vars

\* The polling tasks under their scheduler: triggers with background polling
\* enabled, the provider, and the two tasks each trigger submits.  A task that
\* a worker of its ThreadPoolExecutor has taken runs until it returns: each
\* task's steps are taken as long as one is possible.
AppTask(j) ==
    \/ AppStart(j)
    \/ AppPoll(j)
    \/ DownloadStep(j, "app")
    \/ AppDownloadReturn(j)
    \/ AppFinish(j)

HandlerTask(j) ==
    \/ HStart(j)
    \/ HPoll(j)
    \/ DownloadStep(j, "handler")
    \/ HDownloadReturn(j)
    \/ HFinish(j)

InitPolling == InitState /\ enabled /\ pubUp

NextPolling ==
    \E j \in Jobs :
       \/ TriggerCrawl(j)
       \/ ProviderFinish(j)
       \/ AppTask(j)
       \/ HandlerTask(j)

SpecPolling ==
    /\ InitPolling /\ [][NextPolling]_vars
    /\ \A j \in Jobs : WF_vars(AppTask(j)) /\ WF_vars(HandlerTask(j))

\* ------------------------------------------------- the executors on their own
\* Successful triggers and the two worker pools, the body of a polling task
\* left out: a task occupies its worker from the moment a worker takes it
\* until it returns.
Crawls == 1..MaxCrawls

Submitted(ex, e) ==
    {ex[e].queue[i] : i \in DOMAIN ex[e].queue} \cup ex[e].running \cup ex[e].done

\* One successful POST /api/v1/crawl/trigger with polling enabled:
\* CrawlHandler.trigger_crawl submits _background_poll_and_download to its
\* executor, then the route submits background_poll_and_download to app.py's.
PoolTrigger ==
    /\ enabled
    /\ \E c \in Crawls :
          /\ c = Cardinality(Submitted(executors, "handler")) + 1
          /\ executors' = Submit(Submit(executors, "handler", c), "app", c)
    /\ UNCHANGED <<crawlVars, poolRest>>

\* A worker of the pool takes the oldest queued item; a pool has at most
\* max_workers workers, each running one item at a time.
WorkerTake(e) ==
    /\ executors[e].queue # <<>>
    /\ Cardinality(executors[e].running) < MaxWorkers
    /\ executors' = [executors EXCEPT ![e].queue = Tail(@),
                                      ![e].running = @ \cup {Head(executors[e].queue)}]
    /\ UNCHANGED <<crawlVars, poolRest>>

\* A polling task returns and frees its worker.
TaskReturn(e) ==
    /\ \E c \in executors[e].running :
          executors' = [executors EXCEPT ![e].running = @ \ {c}, ![e].done = @ \cup {c}]
    /\ UNCHANGED <<crawlVars, poolRest>>

InitPool == InitQuiet /\ executors = IdleExecutors /\ poolRestIdle

NextPool ==
    \/ PoolTrigger
    \/ \E e \in Executors : WorkerTake(e)
    \/ \E e \in Executors : TaskReturn(e)

SpecPool == InitPool /\ [][NextPool]_vars

\* ------------------------------------------------- get_storage_path on its own
GetStoragePathCall ==
    /\ call.handler # "none" /\ call.out = "none"
    /\ call' = [call EXCEPT !.out = GetStoragePath(call.handler, call.args)]
    /\ UNCHANGED <<crawlVars, pathRest>>

\* The same call again, at another time of the same day.
GetStoragePathAgain ==
    /\ call.handler # "none" /\ call.out # "none" /\ call.again = "none"
    /\ \E h \in {0, MaxHour} :
          call' = [call EXCEPT !.again =
                      GetStoragePath(call.handler, [call.args EXCEPT !.timestamp.hour = h])]
    /\ UNCHANGED <<crawlVars, pathRest>>

InitPath == InitQuiet /\ call \in Calls /\ pathRestIdle

NextPath == GetStoragePathCall \/ GetStoragePathAgain

SpecPath == InitPath /\ [][NextPath]_vars

\* ------------------------------------------------- download_snapshot on its own
\* data = self._parse_brightdata_response(raw_response, snapshot_id)
ParseResponse ==
    /\ snapshot.form # "none" /\ ~snapshot.parsed
    /\ snapshot' = [snapshot EXCEPT !.parsed = TRUE,
                                    !.data = ParseBrightdataResponse(snapshot.response_text)]
    /\ UNCHANGED <<crawlVars, parseRest>>

\* DownloadHandler.download_snapshot for a response of status 200 or not: a
\* text that does not parse is written to the debug directory (a failed write
\* is logged) and the error response is returned.
DownloadSnapshot ==
    /\ snapshot.form # "none" /\ snapshot.result = "none"
    /\ \E ok200, written \in BOOLEAN :
          LET data == ParseBrightdataResponse(snapshot.response_text)
          IN  snapshot' =
                 IF ~ok200 THEN [snapshot EXCEPT !.result = "download_failed"]
                 ELSE IF data.none
                 THEN [snapshot EXCEPT !.result = "parse_failed",
                                       !.debug = IF written THEN "raw_response" ELSE "unwritten"]
                 ELSE [snapshot EXCEPT !.result = "success", !.parsed = TRUE, !.data = data]
    /\ UNCHANGED <<crawlVars, parseRest>>

InitParse ==
    /\ InitQuiet /\ parseRestIdle
    /\ \E r \in Responses : snapshot = Snapshot(r[1], r[2])

NextParse == ParseResponse \/ DownloadSnapshot

SpecParse == InitParse /\ [][NextParse]_vars

\* ------------------------------------------- the second attempt on its own
\* The loop test holds: one iteration.
ScanStep ==
    /\ scan.pc = "loop" /\ scan.idx < Len(scan.response_text)
    /\ scan' = ScanIteration(scan)
    /\ UNCHANGED <<crawlVars, scanRest>>

\* The loop test fails: the loop is left.
ScanExit ==
    /\ scan.pc = "loop" /\ scan.idx >= Len(scan.response_text)
    /\ scan' = [scan EXCEPT !.pc = "done"]
    /\ UNCHANGED <<crawlVars, scanRest>>

InitScan ==
    /\ InitQuiet /\ scanRestIdle
    /\ \E r \in Responses : scan = Scan(ResponseText(r[1], r[2]))

NextScan == ScanStep \/ ScanExit

SpecScan == InitScan /\ [][NextScan]_vars

\* ------------------------------------------------- the registry on its own
\* Import of platforms.registry: _auto_initialize() loads the default
\* configuration and swallows what it raises.  The import of the handlers in
\* platforms/__init__.py that follows raises ImportError (src/platforms has no
\* youtube module) and registers nothing.
AutoInitialize ==
    /\ registry.op = "none"
    /\ \E file \in Files \cup {NoFile} :
          registry' = [LoadDefaultConfig(registry, file).reg EXCEPT !.op = "import"]
    /\ UNCHANGED <<crawlVars, registryRest>>

\* Not the code: the lookup loads the default configuration every time. C31
\* must tell it apart.
GetPlatformHandlerReloading(platform) ==
    /\ registry.op # "none"
    /\ \E file \in Files \cup {NoFile} :
          LET loaded == LoadDefaultConfig(registry, file)
          IN  registry' = [loaded.reg EXCEPT
                              !.op = "get_platform_handler",
                              !.out = IF loaded.raised THEN "raise"
                                      ELSE RegistryGetHandler(loaded.reg, platform)]
    /\ UNCHANGED <<crawlVars, registryRest>>

\* get_platform_handler(platform): loads the default configuration if the
\* registry is not initialized (what that raises reaches the caller), then
\* looks the handler up.
GetPlatformHandlerCall(platform) ==
    /\ registry.op # "none"
    /\ IF registry.initialized
       THEN registry' = [registry EXCEPT !.op = "get_platform_handler",
                                         !.out = RegistryGetHandler(registry, platform)]
       ELSE \E file \in Files \cup {NoFile} :
               LET loaded == LoadDefaultConfig(registry, file)
               IN  registry' = [loaded.reg EXCEPT
                                   !.op = "get_platform_handler",
                                   !.out = IF loaded.raised THEN "raise"
                                           ELSE RegistryGetHandler(loaded.reg, platform)]
    /\ UNCHANGED <<crawlVars, registryRest>>

\* PlatformRegistry.get_config(platform)
GetConfigCall(platform) ==
    /\ registry.op # "none"
    /\ registry' = [registry EXCEPT !.op = "get_config",
                                    !.out = RegistryGetConfig(registry, platform)]
    /\ UNCHANGED <<crawlVars, registryRest>>

\* PlatformRegistry.is_registered(platform)
IsRegisteredCall(platform) ==
    /\ registry.op # "none"
    /\ registry' = [registry EXCEPT !.op = "is_registered",
                                    !.out = IF RegistryIsRegistered(registry, platform)
                                            THEN "True" ELSE "False"]
    /\ UNCHANGED <<crawlVars, registryRest>>

\* PlatformRegistry.register(platform, handler_class, config), at any time.
RegisterCall(platform, handler_class, config) ==
    /\ registry.op # "none" /\ registry.n < MaxRegisters
    /\ registry' = [RegistryRegister(registry, platform, handler_class, config)
                       EXCEPT !.op = "register", !.out = "none", !.n = @ + 1]
    /\ UNCHANGED <<crawlVars, registryRest>>

InitRegistry == InitQuiet /\ registry = NoRegistry /\ registryRestIdle

NextRegistry ==
    \/ AutoInitialize
    \/ \E platform \in Names : GetPlatformHandlerCall(platform)
    \/ \E platform \in Names : GetConfigCall(platform)
    \/ \E platform \in Names : IsRegisteredCall(platform)
    \/ \E platform \in Names, handler_class \in Classes, config \in Profiles :
          RegisterCall(platform, handler_class, config)

SpecRegistry == InitRegistry /\ [][NextRegistry]_vars

\* --------------------------------------- prepare_request_params on its own
\* params = platform_handler.prepare_request_params(crawl_params)
PrepareRequestParamsCall ==
    /\ prep.pc = "called"
    /\ prep' = [prep EXCEPT !.pc = "prepared",
                            !.out = PrepareRequestParams(prep.handler, prep.params)]
    /\ UNCHANGED <<crawlVars, prepRest>>

\* await api_client.trigger_crawl(...) with the prepared parameters.
SendTrigger ==
    /\ prep.pc = "prepared"
    /\ prep' = [prep EXCEPT !.pc = "sent",
                            !.payload = TriggerPayload(prep.handler, prep.out)]
    /\ UNCHANGED <<crawlVars, prepRest>>

InitPrep == InitQuiet /\ prep \in Preps /\ prepRestIdle

NextPrep == PrepareRequestParamsCall \/ SendTrigger

SpecPrep == InitPrep /\ [][NextPrep]_vars

\* ------------------------------------------- extract_media_info on its own
\* platform_handler.extract_media_info(record), on the first record.
ExtractMediaInfoCall ==
    /\ media.pc = "called"
    /\ media' = [media EXCEPT !.pc = "returned",
                              !.out = ExtractMediaInfo(media.handler, media.data[1])]
    /\ UNCHANGED <<crawlVars, mediaRest>>

\* self._count_media_files_platform_aware(data, platform_handler)
CountMediaFiles ==
    /\ media.handler # "none" /\ ~media.counted
    /\ media' = [media EXCEPT !.counted = TRUE,
                              !.media_count =
                                  CountMediaFilesPlatformAware(media.data, media.handler, 0)]
    /\ UNCHANGED <<crawlVars, mediaRest>>

InitMedia == InitQuiet /\ media \in MediaCalls /\ mediaRestIdle

NextMedia == ExtractMediaInfoCall \/ CountMediaFiles

SpecMedia == InitMedia /\ [][NextMedia]_vars

\* ------------------------------------------- the provider clients on their own
\* check_status(job_id)
AdapterCheckStatus ==
    /\ adapter.client # "none" /\ adapter.is_ready = "none"
    /\ \E httpOk \in BOOLEAN :
          adapter' = [adapter EXCEPT !.is_ready = CheckStatus("real", adapter.state, httpOk)]
    /\ UNCHANGED <<crawlVars, adapterRest>>

\* download_data(job_id, limit): the body is the provider's text for
\* BrightData (one piece per line) and the dataset items for Apify.
AdapterDownloadData ==
    /\ adapter.pc = "called"
    /\ \/ /\ adapter.client = "brightdata"
          /\ \E answer \in BrightDataAnswers(adapter.state) :
                adapter' = [adapter EXCEPT
                               !.pc = "returned", !.answer = answer,
                               !.result = BrightDataDownloadData(adapter.state, answer,
                                             Join(adapter.body, <<"\n">>), adapter.limit)]
       \/ /\ adapter.client = "apify"
          /\ \E answer \in ApifyAnswers :
                adapter' = [adapter EXCEPT
                               !.pc = "returned", !.answer = answer,
                               !.result = ApifyDownloadData(adapter.state, answer,
                                             LoadedLines(adapter.body), adapter.limit)]
    /\ UNCHANGED <<crawlVars, adapterRest>>

InitAdapter == InitQuiet /\ adapter \in Adapters /\ adapterRestIdle

NextAdapter == AdapterCheckStatus \/ AdapterDownloadData

SpecAdapter == InitAdapter /\ [][NextAdapter]_vars

\* ------------------------------------------------------------------ claims
PollerRunning(pc) == pc \in {"loop", "download"}

Contains(t, w) == \E i \in DOMAIN t : t[i] = w
Once(t, w) == Cardinality({i \in DOMAIN t : t[i] = w}) = 1
Before(t, v, w) == \E i, k \in DOMAIN t : i < k /\ t[i] = v /\ t[k] = w

Returned(r, result) == r.pc = "ret" /\ r.result = result

\* C1: at any time and for every job id, at most one background polling task
\* for that job is running.
C1_OnePollerPerJob ==
    \A j \in Jobs : ~(PollerRunning(appPc[j]) /\ PollerRunning(hPc[j]))

\* C2: for every attempt budget B, a background-polled job whose status check
\* fails on attempts 1..B-2 is still being polled for attempt B-1 (where
\* readiness would be downloaded and completed) and is not reported failed:
\* while a poller has made at most B-2 attempts, all of them failed status
\* checks, it is still in its loop and no failure notification has been
\* published for the job.
C2_TransientFailuresTolerated ==
    \A j \in Jobs :
       /\ (hPolls[j] \in 1..(max_polls - 2) /\ ghost[j].hErr = hPolls[j])
             => hPc[j] = "loop"
       /\ (appPolls[j] \in 1..(max_polls - 2) /\ ghost[j].appErr = appPolls[j])
             => (appPc[j] = "loop" /\ \A st \in Stages : bus[j][st] = 0)

\* C3: a background-polled job whose provider never reports readiness within
\* the attempt budget ends with recorded status failed and failure stage
\* polling_timeout: once the pollers are done, one of them having used the
\* whole budget on status checks that answered and never said ready (and nobody
\* having started a download), the latest status is failed and a
\* polling_timeout failure has been published.
C3_TimeoutRecordedFailed ==
    \A j \in Jobs :
       ( /\ hPc[j] = "done" /\ appPc[j] = "done"
         /\ hPolls[j] = max_polls /\ ghost[j].hErr = 0 /\ ghost[j].hReady = 0
         /\ nRuns[j] = 0 )
       => (latest[j] = "failed" /\ bus[j]["polling_timeout"] > 0)

\* C4: once a job's recorded status is completed or failed, every later
\* iteration of a background polling task for that job starts no download,
\* writes no status, publishes nothing, and the task leaves its loop.
C4_TerminalPollNoOp ==
    [][\A j \in Jobs :
          /\ (latest[j] \in Terminal /\ hPolls'[j] # hPolls[j])
                => (hPc'[j] = "after" /\ run'[j] = run[j] /\ nEv'[j] = nEv[j]
                    /\ bus'[j] = bus[j])
          /\ (latest[j] \in Terminal /\ appPolls'[j] # appPolls[j])
                => (appPc'[j] = "after" /\ run'[j] = run[j] /\ nEv'[j] = nEv[j]
                    /\ bus'[j] = bus[j])]_vars

\* C5: Download runs against the same ready job, in any interleaving, record
\* completed at most once for the job, and the runs that succeed report the
\* same record count.
C5_OneCompletedSequence ==
    \A j \in Jobs :
       /\ nEv[j]["completed"] <= 1
       /\ \A a, b \in Actors :
             (run[j][a].result = "success" /\ run[j][b].result = "success")
                => run[j][a].n = run[j][b].n

\* C6: completed and failed are terminal: after the job's recorded status has
\* become completed or failed, no step records a further status event for it.
C6_TerminalIsFinal ==
    [][\A j \in Jobs : latest[j] \in Terminal => nEv'[j] = nEv[j]]_vars

\* C7: every Download run on a known job that does not return success leaves
\* the job's latest recorded status failed: at the step a run returns anything
\* but success (or the unknown-job error), the latest status is failed.
C7_ErrorReturnsFailed ==
    [][\A j \in Jobs, a \in Actors :
          ( /\ run[j][a].pc # "ret"
            /\ run'[j][a].pc = "ret"
            /\ run'[j][a].result \notin {"success", "not_found"} )
          => latest'[j] = "failed"]_vars

\* C8: Download on a job whose provider status is not ready performs no adapter
\* download (a run that called the adapter's download found the provider
\* ready); a run whose status check on the provider's snapshot id answered, the
\* provider not being ready, returned the not-ready error; and a run that
\* returned the not-ready error made no adapter download, no object-storage
\* write, no warehouse summary insert and no completion notification; when it
\* is the job's only run, object storage, the summary table and the completion
\* topic hold nothing for the job.
C8_NotReadyDownloadsNothing ==
    \A j \in Jobs, a \in Actors :
       /\ Contains(run[j][a].trace, "fetch") => prov[j] = "ready"
       /\ ( /\ run[j][a].pc = "ret" /\ run[j][a].snap = "real"
            /\ prov[j] # "ready" /\ run[j][a].result # "exception" )
          => run[j][a].result = "not_ready"
       /\ Returned(run[j][a], "not_ready") =>
             /\ \A w \in {"fetch", "gcs", "summary", "publish"} :
                   ~Contains(run[j][a].trace, w)
             /\ nRuns[j] = 1 =>
                   /\ gcs[j] = {}
                   /\ summary[j] = {}
                   /\ bus[j]["data-ingestion-completed"] = 0

\* A download has just returned the not-ready error, the provider still running.
C8_Witness ==
    \E j \in Jobs :
       Returned(run[j]["manual"], "not_ready") /\ prov[j] = "running" /\ nRuns[j] = 1

\* C9: in every Download run that returns success, the statuses downloaded,
\* uploaded, completed are recorded once each in that order, the object-storage
\* write comes after downloaded and before uploaded, and the completion
\* notification is published before completed is recorded; when it is the job's
\* only run, the job's status records and object storage show the same.
C9_SuccessOrder ==
    \A j \in Jobs, a \in Actors :
       Returned(run[j][a], "success") =>
          LET t == run[j][a].trace IN
          /\ \A w \in {"downloaded", "gcs", "uploaded", "publish", "completed"} : Once(t, w)
          /\ Before(t, "downloaded", "gcs")
          /\ Before(t, "gcs", "uploaded")
          /\ Before(t, "uploaded", "completed")
          /\ Before(t, "publish", "completed")
          /\ nRuns[j] = 1 =>
                /\ \A st \in {"downloaded", "uploaded", "completed"} : nEv[j][st] = 1
                /\ gcs[j] # {}
                /\ latest[j] = "completed"

\* A download has just returned success.
C9_Witness ==
    \E j \in Jobs : Returned(run[j]["manual"], "success") /\ nRuns[j] = 1

\* C10: a status check on any job records no status event, publishes no
\* notification and leaves the job's stored metadata (warehouse rows and local
\* store entry) unchanged: a step that answers a status request changes none of
\* them.
C10_StatusReadOnly ==
    [][\A j \in Jobs :
          resp'[j] # resp[j] =>
             /\ bq' = bq /\ local' = local
             /\ latest' = latest /\ nEv' = nEv
             /\ bus' = bus /\ gcs' = gcs /\ summary' = summary]_vars

\* A status request on a known job has been answered "ready" while the job's
\* latest status record is still 'triggered'.
C10_Witness ==
    \E j \in Jobs : resp[j] = "ready" /\ latest[j] = "triggered" /\ nEv[j]["triggered"] = 1

\* The requests C11 names: a supported platform with the url missing, or a url
\* string naming another platform's domain and not this one's.
MissingUrl(r) == r.url.kind = "missing"
OutsideDomain(r) ==
    /\ r.url.kind = "str"
    /\ \/ r.platform = "facebook" /\ HasPart(r.url, {"tiktok.com"})
                                  /\ ~HasPart(r.url, FacebookHosts)
       \/ r.platform = "tiktok" /\ HasPart(r.url, FacebookHosts)
                                /\ ~HasPart(r.url, {"tiktok.com"})

\* C11: a trigger whose parameters fail platform validation (url missing, or a
\* url outside the platform's domain) returns the validation error and makes no
\* provider call, persists no job record (no warehouse row, no local entry, no
\* status event), publishes nothing and schedules no polling task.
C11_InvalidTriggerRejected ==
    [][\A j \in Jobs :
          ( /\ trig[j] = "none" /\ trig'[j] # "none"
            /\ req[j].platform \in Handlers
            /\ MissingUrl(req[j]) \/ OutsideDomain(req[j]) )
          => /\ trig'[j] = "invalid"
             /\ prov'[j] = "none"
             /\ bq'[j] = {} /\ local'[j] = NoLocal /\ nEv'[j] = ZeroEv
             /\ bus'[j] = ZeroBus
             /\ appPc'[j] = "none" /\ hPc'[j] = "none"]_vars

\* A trigger has been refused by validation while background polling is
\* enabled, and nothing exists for the job.
C11_Witness ==
    \E j \in Jobs :
       /\ trig[j] = "invalid" /\ enabled
       /\ latest[j] = "none" /\ appPc[j] = "none" /\ hPc[j] = "none"

\* What a read of the job's metadata may return now.
Reads(j) == GetCrawlMetadata(bq[j], local[j], bqUp)

\* C12: a job's external (snapshot) id is assigned once at trigger time and
\* never changes: for a triggered job, whatever status updates have been made,
\* every read of its metadata that finds the job returns the id the provider
\* gave at trigger.
C12_ExternalIdStable ==
    \A j \in Jobs :
       trig[j] = "success" =>
          \A m \in Reads(j) : m.found => (m.hasSnap /\ m.snap = "real")

\* C13: after any sequence of status writes, the status a metadata read
\* returns is the status of the job's most recent status record.
C13_ReadReturnsLatest ==
    \A j \in Jobs :
       latest[j] # "none" =>
          \A m \in Reads(j) : m.found => m.status = latest[j]

\* C14: all mutation of job metadata is append-only: a step only adds status
\* records; it removes or changes no warehouse row and overwrites no existing
\* entry of the local store.
C14_AppendOnly ==
    [][\A j \in Jobs :
          /\ bq[j] \subseteq bq'[j]
          /\ local[j].present => local'[j] = local[j]]_vars

\* C14, for the warehouse: every step leaves each row of the crawl_metadata
\* table as it was; a status change that reaches the table adds a row.
C14_WarehouseAppendOnly ==
    [][\A j \in Jobs :
          /\ bq[j] \subseteq bq'[j]
          /\ (nEv'[j] # nEv[j] /\ bqUp) => Cardinality(bq'[j]) >= Cardinality(bq[j])]_vars

\* The table holds the job's trigger row and rows of later status changes.
C14_Witness ==
    \E j \in Jobs :
       /\ Row("real", "triggered", FALSE) \in bq[j]
       /\ Cardinality(bq[j]) >= 3

\* Polling tasks running now, over both executors.
RunningTasks == {<<e, c>> \in Executors \X Crawls : c \in executors[e].running}

\* C15: at every moment the number of concurrently running background polling
\* tasks is at most the configured worker-pool size.
C15_PoolBound == Cardinality(RunningTasks) <= MaxWorkers

\* C16: every object-storage write made for a job targets the same path,
\* whichever attempt of whichever Download run makes it.
C16_OnePathPerJob == \A j \in Jobs : Cardinality(gcs[j]) <= 1

TwoDigits(n) == ToString(n \div 10) \o ToString(n % 10)

\* C17: get_storage_path is pure: a call repeated with the same arguments, at
\* any time of the same calendar day, returns the same result, and a path it
\* returns has the form raw_snapshots/platform=<p>/competitor=<c>/brand=<b>/
\* category=<k>/year=<Y>/month=<MM>/day=<DD>/snapshot_<id>.json.
C17_StoragePathPure ==
    /\ call.again # "none" => call.again = call.out
    /\ call.out \notin {"none", "ValueError"} =>
          call.out = "raw_snapshots/platform=" \o call.handler
                     \o "/competitor=" \o call.args.competitor
                     \o "/brand=" \o call.args.brand
                     \o "/category=" \o call.args.category
                     \o "/year=" \o ToString(call.args.timestamp.year)
                     \o "/month=" \o TwoDigits(call.args.timestamp.month)
                     \o "/day=" \o TwoDigits(call.args.timestamp.day)
                     \o "/snapshot_" \o call.args.snapshot_id.text \o ".json"

\* A path was returned for a single-digit month, twice on the same day at
\* different hours.
C17_Witness ==
    /\ call.handler # "none" /\ call.again \notin {"none", "ValueError"}
    /\ call.args.timestamp.month < 10
    /\ call.args.timestamp.hour = 0

\* C18: a job with a recorded completed or failed status (one that failed
\* during trigger included) is queryable: a GetStatus call for it answers
\* with a status view, not with not-found or an internal error.
C18_TerminalQueryable ==
    [][\A j \in Jobs :
          (latest[j] \in Terminal /\ resp'[j] # resp[j])
             => resp'[j] \notin {"not_found", "exception"}]_vars

\* C19: every failed status record of a job carries an error message and the
\* name of the stage at which the failure occurred.
C19_FailedCarriesMessageAndStage ==
    \A j \in Jobs :
       /\ \A r \in bq[j] : r.status = "failed" => (r.err /\ "stage" \in DOMAIN r)
       /\ (local[j].present /\ local[j].status = "failed")
             => (local[j].err /\ "stage" \in DOMAIN local[j])

\* The run has made its publish call, which failed.
PublishFailed(r) == ~pubUp /\ Contains(r.trace, "publish")

\* C20: when publishing the completion notification fails, the Download run
\* goes on to return success with what it stored (the path written, the
\* record count) and records no failed status for the job.
C20_PublishFailureTolerated ==
    [][\A j \in Jobs, a \in Actors :
          (PublishFailed(run'[j][a]) /\ run'[j][a] # run[j][a] /\ run[j][a].pc # "ret")
             => /\ nEv'[j]["failed"] = nEv[j]["failed"]
                /\ bus'[j]["data-ingestion-completed"] = bus[j]["data-ingestion-completed"]
                /\ run'[j][a].pc \in {"w_completed", "ret"}
                /\ run'[j][a].pc = "ret"
                      => /\ run'[j][a].result = "success"
                         /\ run'[j][a].n = payload[j]
                         /\ \E d \in 0..MaxDay : StoragePath(run'[j][a].snap, d) \in gcs'[j]
                         /\ latest'[j] # "failed"]_vars

\* A run whose completion notification was not delivered returned success.
C20_Witness ==
    \E j \in Jobs, a \in Actors :
       /\ PublishFailed(run[j][a]) /\ Returned(run[j][a], "success")
       /\ bus[j]["data-ingestion-completed"] = 0
       /\ latest[j] = "completed"

\* The job is in the fallback store with its external id.
InFallback(l) == l.present /\ l.hasSnap

\* C21: a failed warehouse insert does not abort the job: a trigger the
\* provider accepted while the warehouse is down returns success and leaves
\* the job, with its external id and status triggered, in the fallback store;
\* every later read of such a job finds it with that id, and a Download of it
\* gets past the metadata lookup with that id.
C21_WarehouseFailureTolerated ==
    [][\A j \in Jobs :
          /\ (trig[j] = "none" /\ prov'[j] = "running" /\ ~bqUp)
                => /\ trig'[j] = "success"
                   /\ InFallback(local'[j]) /\ local'[j].status = "triggered"
          /\ InFallback(local[j])
                => /\ \A m \in Reads(j) : m.found /\ m.hasSnap /\ m.snap = "real"
                   /\ \A a \in Actors :
                         (run[j][a].pc = "start" /\ run'[j][a] # run[j][a])
                            => run'[j][a].pc = "check" /\ run'[j][a].snap = "real"]_vars

\* A job triggered with the warehouse down, which never came back, was
\* downloaded to completion.
C21_Witness ==
    \E j \in Jobs :
       /\ trig[j] = "success" /\ bq[j] = {} /\ ~bqUp
       /\ InFallback(local[j]) /\ local[j].status = "completed"
       /\ Returned(run[j]["manual"], "success")
       /\ gcs[j] # {}

\* C22: within one Download run the object-storage write is attempted at most
\* three times: an attempt that succeeds lets the run proceed with the object
\* written, a failure before the third attempt is followed by another attempt
\* with nothing recorded, and the failure of the third ends the run with the
\* error and the job recorded failed.
C22_UploadRetriesBounded ==
    [][\A j \in Jobs, a \in Actors :
          (run[j][a].pc = "gcs" /\ run'[j][a] # run[j][a])
             => /\ run[j][a].attempt < 3
                /\ \/ /\ run'[j][a].pc = "w_uploaded"
                      /\ \E d \in 0..MaxDay : StoragePath(run[j][a].snap, d) \in gcs'[j]
                      /\ nEv'[j] = nEv[j]
                   \/ /\ run'[j][a].pc = "gcs"
                      /\ run'[j][a].attempt = run[j][a].attempt + 1
                      /\ run'[j][a].attempt < 3
                      /\ gcs'[j] = gcs[j] /\ nEv'[j] = nEv[j]
                   \/ /\ Returned(run'[j][a], "exception")
                      /\ run[j][a].attempt = 2
                      /\ gcs'[j] = gcs[j]
                      /\ latest'[j] = "failed"
                      /\ nEv'[j]["failed"] = nEv[j]["failed"] + 1]_vars

\* A run whose three upload attempts all failed has returned the error.
C22_Witness ==
    \E j \in Jobs, a \in Actors :
       /\ Returned(run[j][a], "exception") /\ run[j][a].attempt = 2
       /\ Contains(run[j][a].trace, "fetch") /\ ~Contains(run[j][a].trace, "gcs")
       /\ latest[j] = "failed" /\ gcs[j] = {}

\* C23: a trigger call invokes the provider client's trigger at most once; when
\* that call fails the same trigger call returns the error, the call is not
\* repeated, and no background polling task is scheduled.
C23_TriggerFailureNotRetried ==
    [][\A j \in Jobs :
          (trig[j] = "none" /\ trig'[j] # "none")
             => /\ provCalls'[j] <= provCalls[j] + 1
                /\ (provCalls'[j] > provCalls[j] /\ prov'[j] = "none")
                      => /\ trig'[j] = "error"
                         /\ appPc'[j] = "none" /\ hPc'[j] = "none"
                         /\ bus'[j] = bus[j]]_vars

\* With polling enabled, a trigger whose one provider call failed.
C23_Witness ==
    \E j \in Jobs :
       /\ enabled /\ trig[j] = "error" /\ provCalls[j] = 1 /\ prov[j] = "none"
       /\ appPc[j] = "none" /\ hPc[j] = "none"

\* C24: a trigger call that returns success has an external id from the
\* provider, and when it returns a record of the job with status triggered and
\* that id is in the warehouse or in the fallback store, where a read finds it.
C24_SuccessIsPersisted ==
    [][\A j \in Jobs :
          (trig[j] = "none" /\ trig'[j] = "success")
             => /\ prov'[j] = "running" /\ provCalls'[j] = provCalls[j] + 1
                /\ \/ Row("real", "triggered", FALSE) \in bq'[j]
                   \/ InFallback(local'[j]) /\ local'[j].status = "triggered"
                /\ \A m \in GetCrawlMetadata(bq'[j], local'[j], bqUp') :
                      m.found /\ m.hasSnap /\ m.snap = "real" /\ m.status = "triggered"]_vars

\* A successful trigger whose record is in the warehouse.
C24_Witness ==
    \E j \in Jobs :
       /\ trig[j] = "success" /\ provCalls[j] = 1 /\ latest[j] = "triggered"
       /\ bq[j] = {Row("real", "triggered", FALSE)} /\ ~local[j].present

\* The record a piece of the response text stands for.
RecordOf(piece) == [kind |-> Kind(piece[1]), text |-> piece]
RecordsOf(pieces) == [i \in DOMAIN pieces |-> RecordOf(pieces[i])]
IsObjectPiece(piece) == piece \in {ObjA, ObjEmpty}
IsValuePiece(piece) == piece \in {ObjA, ObjEmpty, ArrNum, ArrMixed, Num}
IsMalformedPiece(piece) == piece \in {Junk, Truncated}
AllPieces(pieces, P(_)) == \A i \in DOMAIN pieces : P(pieces[i])

\* C25: a payload of N >= 1 JSON objects concatenated with nothing between
\* them is parsed into exactly those N dictionaries, in input order.
C25_ConcatenatedObjectsRecovered ==
    ( /\ snapshot.parsed /\ snapshot.form = "concatenated"
      /\ AllPieces(snapshot.pieces, IsObjectPiece) )
       => snapshot.data = Data(RecordsOf(snapshot.pieces))

\* C26: a JSON-lines payload of M >= 1 valid object lines and one malformed
\* line, at any position, is parsed into exactly the M valid records.
C26_JsonLinesSkipMalformed ==
    ( /\ snapshot.parsed /\ snapshot.form = "lines"
      /\ Cardinality({i \in DOMAIN snapshot.pieces : IsMalformedPiece(snapshot.pieces[i])}) = 1
      /\ Cardinality({i \in DOMAIN snapshot.pieces : IsObjectPiece(snapshot.pieces[i])})
            = Len(snapshot.pieces) - 1
      /\ Len(snapshot.pieces) >= 2 )
       => snapshot.data = Data(RecordsOf(SelectSeq(snapshot.pieces, IsObjectPiece)))

\* C27: a payload that is a valid JSON array is parsed into exactly the
\* array's elements, in order, none dropped.
C27_ArrayElementsReturned ==
    ( /\ snapshot.parsed /\ snapshot.form = "array"
      /\ AllPieces(snapshot.pieces, IsValuePiece) )
       => snapshot.data = Data(RecordsOf(snapshot.pieces))

\* An array of a dictionary, a number and a list was parsed.
C27_Witness ==
    /\ snapshot.parsed /\ snapshot.form = "array"
    /\ snapshot.pieces = <<ObjA, Num, ArrMixed>>
    /\ ~snapshot.data.none /\ Len(snapshot.data.data) = 3

\* C28: every record of a successful parse result is a dictionary.
C28_RecordsAreDictionaries ==
    (snapshot.parsed /\ ~snapshot.data.none)
       => \A i \in DOMAIN snapshot.data.data : IsDict(snapshot.data.data[i])

\* Noise: the text is not a JSON document and no JSON object or array can be
\* decoded at any position of it.
Noise(s) ==
    /\ ~Loads(s).ok
    /\ \A i \in 0..(Len(s) - 1) : Ch(s, i) \in {"{", "["} => ScanValue(s, i) = -1

Lookups == {"get_platform_handler", "get_config", "is_registered"}

\* Each platform name has one profile, whatever its case.
OneProfilePerName(reg) ==
    \A e1, e2 \in reg.configs : LowerName(e1[1]) = LowerName(e2[1]) => e1 = e2

ExpectedKeys(handler) == IF handler = "facebook" THEN FacebookExpected ELSE TikTokExpected

\* C32: prepare_request_params returns only keys of the provider's expected
\* set; every other key of the caller's map is dropped and is in nothing the
\* provider is sent.
C32_OnlyExpectedKeys ==
    /\ prep.pc \in {"prepared", "sent"}
          => /\ DOMAIN prep.out \subseteq ExpectedKeys(prep.handler)
             /\ \A key \in DOMAIN prep.params.items \ ExpectedKeys(prep.handler) :
                   key \notin DOMAIN prep.out
    /\ prep.pc = "sent"
          => /\ DOMAIN prep.payload.body \subseteq ExpectedKeys(prep.handler)
             /\ \A key \in DOMAIN prep.params.items \ ExpectedKeys(prep.handler) :
                   key \notin DOMAIN prep.payload.body \cup prep.payload.query

\* A map with tracking fields was prepared and sent.
C32_Witness ==
    /\ prep.pc = "sent" /\ prep.params.isDict
    /\ {"url", "platform", "competitor"} \subseteq DOMAIN prep.params.items
    /\ "platform" \notin DOMAIN prep.payload.body
    /\ DOMAIN prep.payload.body # {}

\* The media field a handler inspects, and a record in which it is absent or
\* has the wrong type.
MediaField(handler) == IF handler = "facebook" THEN "attachments" ELSE "videoMeta"
MediaFieldType(handler) == IF handler = "facebook" THEN "list" ELSE "dict"
MediaFieldUnusable(handler, record) ==
    \/ MediaField(handler) \notin DOMAIN record.fields
    \/ record.fields[MediaField(handler)].type # MediaFieldType(handler)

\* C33: extract_media_info returns a result for every record (a dict, as the
\* media count passes it) and never raises; a record whose media field is
\* absent or has the wrong type gives has_media false, media_count 0 and no
\* media types.
C33_MediaInfoNeverRaises ==
    (media.pc = "returned" /\ media.data[1].isDict)
       => /\ ~media.out.raised
          /\ MediaFieldUnusable(media.handler, media.data[1])
                => media.out = MediaInfo(FALSE, 0, <<>>)

\* The provider answered the download request as it does for a job in that
\* state (no transport failure, no server error).
Answered == adapter.answer \in {"200", "202", "run", "run without dataset"}

\* C34: for both provider clients, download_data for a job that is not ready
\* fails with the not-ready error and returns no data.
C34_NotReadyDownloadFails ==
    (adapter.pc = "returned" /\ adapter.state # "ready" /\ Answered)
       => adapter.result = APIClientError("Job not completed yet")

\* C35: a background-polled job whose provider reported the failed status to
\* the polling task of app.py ends with the failure attributed to the provider
\* (stage brightdata_error) and with no polling_timeout failure; the polling
\* task of CrawlHandler that was told so does not end in its branch for the
\* exhausted budget.
C35_ProviderFailureNotTimeout ==
    \A j \in Jobs :
       /\ (appPc[j] = "done" /\ ghost[j].appFailed)
             => (bus[j]["brightdata_error"] > 0 /\ bus[j]["polling_timeout"] = 0)
       /\ (hPc[j] = "done" /\ ghost[j].hFailed /\ ghost[j].hReady = 0 /\ ghost[j].hErr = 0)
             => hPolls[j] < max_polls

\* The polling task of app.py for the job has started and has not ended.
InFlight(j) == appPc[j] \in {"loop", "download", "after"}

AppDownloaded(j) == run[j]["app"].pc = "done" /\ run[j]["app"].result = "success"

FailurePublished(j) == \E st \in Stages : bus'[j][st] > bus[j][st]

C37_OneTerminalNotification ==
    [][\A j \in Jobs :
          FailurePublished(j) =>
              /\ \A st \in Stages : bus[j][st] = 0
              /\ ~AppDownloaded(j)]_vars

\* C38: a Download run that returns the not-ready error or the not-found error
\* has recorded no status event: nothing is in the run's trace of status writes.
Rejected(r) == Returned(r, "not_ready") \/ Returned(r, "not_found")

C38_RejectedDownloadRecordsNothing ==
    \A j \in Jobs, a \in Actors : Rejected(run[j][a]) => run[j][a].trace = <<>>

C40_ScanTerminates ==
    /\ [][scan.pc = "loop" /\ scan'.pc = "loop" => scan'.idx > scan.idx]_vars
    /\ [](scan.n <= Len(scan.response_text))
    /\ [](scan.at # -1 => scan.at >= scan.before)

\* The loop is left after a value was decoded, a failed raw_decode resumed at a
\* later '{', and a raw_decode call was made after a decoded value.
C40_Witness ==
    /\ scan.pc = "done"
    /\ scan.parsed_objects # <<>>
    /\ scan.n > Len(scan.parsed_objects) + 1
    /\ scan.before > 0

====
